---- MODULE Spec2Model ----
(***************************************************************************)
(* SmartRoute frontend: the live GPS tracking controller of                *)
(* Backend/static/js/geolocation.js together with the pieces of            *)
(* map_init.js it depends on (map readiness, the pointerdrag listener, the *)
(* zoom control).  The position store (map_data.js) and the status line    *)
(* (map_ui_utils.js) are plain accessors; they appear as the fields of the *)
(* program state.                                                          *)
(*                                                                         *)
(* The route overlay (map_utils.js) and the route computations             *)
(* (route_logic.js) share the vector source and the position store with    *)
(* the tracker; RouteSpec runs them, Spec runs the tracker.                *)
(*                                                                         *)
(* Coordinates are in hundredths of a degree.  A position is <<lon, lat>>, *)
(* a projected coordinate (EPSG:3857) is <<x, y>> in metres.               *)
(***************************************************************************)
EXTENDS Integers, FiniteSets, Sequences, TLC

\* ------------------------------------------------------------------ bounds
\* Subscriptions the browser hands out in one run (watch ids 1..MaxWatches).
MaxWatches == 2
\* The user works the zoom control between these two levels.
ZoomOutFloor == 15
ZoomInCeiling == 17

\* ------------------------------------------------------- program constants
GPS_RELIABLE_THRESHOLD == 150
ENABLE_AUTO_CENTER_ON_START == TRUE
MinCenterZoom == 16
InitialZoom == 10
\* null of a watch handle or of a feature reference
Null == 0
\* currentPos / currentAccuracy before the first reading
NoPos == <<>>
NoAccuracy == -1

\* ------------------------------------------------------------ input sets
\* Readings the sensor may report: <<lon, lat>> in 1/100 degree.
Positions == { <<-4600, -2300>>, <<-4700, -2250>> }
\* Reported accuracies in metres: exactly the threshold, and just above it.
Accuracies == { 150, 151 }
\* PositionError codes: 1 permission denied, 2 position unavailable.
ErrorCodes == { 1, 2 }

\* ----------------------------------------------------------- projections
\* Northing of a latitude on the Web Mercator sphere (R = 6378137 m),
\* tabulated for the latitudes that occur.
MercatorY(lat) ==
    CASE lat = -2355 -> -2698669
      [] lat = -2350 -> -2692598
      [] lat = -2360 -> -2704742
      [] lat = -2300 -> -2632019
      [] lat = -2250 -> -2571663
      [] OTHER       -> lat * 1113

\* ol.proj.fromLonLat: x = R * lon * pi / 180, 111319 m per degree.
fromLonLat(p) == << (p[1] * 111319) \div 100, MercatorY(p[2]) >>

\* Centre of the view the map is constructed with (Sao Paulo).
InitialCenter == fromLonLat(<< -4663, -2355 >>)
\* Where a user drag may leave the view.
DraggedCenter == << -5000000, -2600000 >>

Max(a, b) == IF a >= b THEN a ELSE b

\* --------------------------------------------------------------- state
VARIABLES
    \* environment: what the browser offers
    hasGeolocation,          \* 'geolocation' in navigator
    hasFontFaceSetLoadEvent, \* the global FontFaceSetLoadEvent is defined
    uiNamesDeclared,         \* btnGenerateRoute, inputStart, inputEnd resolve in events.js
    \* navigator.geolocation
    watches,                 \* live watchPosition subscriptions [id, force]
    nextWatchId,             \* the id the next watchPosition returns
    pendingOnce,             \* forceCenter of the pending getCurrentPosition requests
    \* map widget
    mapReady,                \* rendercomplete has stored map and vector source
    features,                \* the vector source: feature id -> geometry
    nextFeatureId,           \* identity of the next new ol.Feature
    center, zoom,            \* the view
    \* position store (map_data.js)
    watchId, following, currentPos, currentAccuracy,
    markerFeature, accuracyFeature,
    \* geolocation.js
    hasInitialFix,
    \* status line (map_ui_utils.js updateStatus)
    status,
    \* route store (map_data.js) and overlay bookkeeping (map_utils.js)
    apiBaseUrl,              \* getApiBaseUrl() is set
    rotatual,                \* the current route line feature
    originMarker, destinationMarker,
    trafficFeatures, incidentFeatures,   \* sequences of feature ids
    originCoords, destinationCoords,     \* <<lon, lat>> or NoPos
    message,                 \* last showMessage text (ui_utils.js)
    raised,                  \* a handler ended in an uncaught exception
    \* route computations started so far, each an async function run
    comps,
    \* observation of the last handler that ran
    requested,               \* the requests it sent: geocodeOrigin, geocodeDestination, route
    answered,                \* the routing response it was handed, if any
    overlapped,              \* history: a computation started while another was unfinished
    timers,                  \* pending setTimeout callbacks that post SESSION_EXPIRED
    routeInfo,               \* distance and duration shown by updateRouteInfo
    routeBody,               \* environment: the summary shapes in the routing endpoint's answers
    markerListeners,         \* mapReady listeners registered by drawRouteMarkers
    originCoord, destinationCoord,       \* events.js: the clicks of the pending pair
    clicks,                  \* history: click events the map has fired
    clickRole,               \* observation: what the last step's map click was taken for
    \* host page (React App and Login)
    posted,                  \* SESSION_EXPIRED messages posted to the host, not yet handled
    token,                   \* App state: the token, or Null (login screen)
    localStorageToken,       \* localStorage 'token'
    username, password,      \* Login form fields
    error,                   \* Login form error text
    loading,                 \* Login form: a submission is in progress
    loginRequests,           \* /api/login requests in flight
    loginSent,               \* observation: login requests sent by the last step
    \* legacy route_logic.js (window.drawRoute guarded by is_drawing_route)
    is_drawing_route,
    legacyRotatual,          \* the global rotatual: the route layer, or Null
    layers,                  \* route layers on the map
    nextLayerId,             \* identity of the next new ol.layer.Vector
    legacyStatus,            \* window.updateStatus text
    legacyFit,               \* the layer the view was last fit to
    legacyCalls,             \* accepted drawRoute calls: the await each is suspended at
    rejected,                \* observation: the last step was a rejected drawRoute call
    sent,                    \* observation: requests to /rota sent by the last step
    \* observation of the last handler that ran
    calls,                   \* view.setCenter calls it made
    delivered,               \* the reading it was handed, if it was a position callback
    \* history
    awaitingFirst,           \* a subscription was created and no callback accepted since
    acceptedSinceStop,       \* a callback was accepted since construction / the last effective stop
    stoppedBefore,           \* an effective stopWatching has happened
    markerCreations,         \* marker features constructed so far
    sessionCreations,        \* ... since construction / the last effective stop
    sessionAccepted,         \* 1 once the current subscription had a callback accepted
    \* bottom sheet (bottom_sheet.js)
    loaded,                  \* the window's load event has fired
    innerHeight,             \* window.innerHeight
    sheetMaxHeight,          \* the sheet's max-height in px
    ariaHidden,              \* the sheet's aria-hidden attribute
    currentSnap, dragging, startMax,
    SNAP_MIN, SNAP_MID, SNAP_FULL, SNAP_CLOSED,
    sheetOp                  \* observation: the sheet handler that ran last

progVars == << watches, nextWatchId, pendingOnce, mapReady, features, nextFeatureId,
               center, zoom, watchId, following, currentPos, currentAccuracy,
               markerFeature, accuracyFeature, hasInitialFix, status >>
routeVars == << apiBaseUrl, rotatual, originMarker, destinationMarker,
                trafficFeatures, incidentFeatures, originCoords, destinationCoords,
                message, raised, comps, requested, answered, overlapped,
                timers, routeInfo >>
clickVars == << markerListeners, originCoord, destinationCoord, clicks, clickRole >>
hostVars == << posted, token, localStorageToken, username, password, error, loading,
               loginRequests, loginSent >>
envVars == << hasGeolocation, hasFontFaceSetLoadEvent, uiNamesDeclared >>
histVars == << calls, delivered, awaitingFirst, acceptedSinceStop, stoppedBefore,
               markerCreations, sessionCreations, sessionAccepted >>
legacyVars == << is_drawing_route, legacyRotatual, layers, nextLayerId, legacyStatus,
                 legacyFit, legacyCalls, rejected, sent >>
sheetVars == << loaded, innerHeight, sheetMaxHeight, ariaHidden, currentSnap, dragging,
               startMax, SNAP_MIN, SNAP_MID, SNAP_FULL, SNAP_CLOSED, sheetOp >>
vars == << envVars, progVars, routeVars, histVars, legacyVars, hostVars, routeBody,
          clickVars, sheetVars >>

\* No routing response: computation 0, no feature collection.
\* Nothing shown yet by updateRouteInfo.
\* A text of the summary panel: a number with its unit, 'N/A', or nothing yet.
Shown(unit, value) == [ unit |-> unit, value |-> value ]
Blank == Shown("", 0)
NA == Shown("N/A", 0)
NoInfo == [ distance |-> Blank, duration |-> Blank ]

\* A JSON value of a summary field: missing, a number, or a text that is
\* not a number.
Field(kind, n) == [ kind |-> kind, n |-> n ]
Undefined == Field("undefined", 0)
Number(n) == Field("number", n)
Text == Field("text", 0)
\* An object that may carry distance and duration, where a summary can be.
Slot(present, distance, duration) ==
    [ present |-> present, distance |-> distance, duration |-> duration ]
NoSlot == Slot(FALSE, Undefined, Undefined)
\* The answer of the routing endpoint as far as summaries go: routes[0].summary,
\* features[0].properties, its .summary, its .segments[0], and an object
\* elsewhere in the answer (after 'features' in key order).
Body(routes, props, summary, segment, extra) ==
    [ routes |-> routes, props |-> props, summary |-> summary, segment |-> segment,
      extra |-> extra ]
NoAnswer == [ c |-> 0, kind |-> "none", routes |-> 0, segments |-> 0, incidents |-> 0,
              fc |-> << >>, cleared |-> FALSE ]

\* The program state as one value, so that handlers compose.
\* calls counts the view.setCenter calls of the running handler.
Cur ==
    [ watches |-> watches, nextWatchId |-> nextWatchId, pendingOnce |-> pendingOnce,
      mapReady |-> mapReady, features |-> features, nextFeatureId |-> nextFeatureId,
      center |-> center, zoom |-> zoom,
      watchId |-> watchId, following |-> following,
      currentPos |-> currentPos, currentAccuracy |-> currentAccuracy,
      markerFeature |-> markerFeature, accuracyFeature |-> accuracyFeature,
      hasInitialFix |-> hasInitialFix, status |-> status, calls |-> 0,
      apiBaseUrl |-> apiBaseUrl, rotatual |-> rotatual,
      originMarker |-> originMarker, destinationMarker |-> destinationMarker,
      trafficFeatures |-> trafficFeatures, incidentFeatures |-> incidentFeatures,
      originCoords |-> originCoords, destinationCoords |-> destinationCoords,
      message |-> message, raised |-> raised, comps |-> comps,
      requested |-> {}, answered |-> NoAnswer, overlapped |-> overlapped,
      timers |-> timers, routeInfo |-> routeInfo, routeBody |-> routeBody,
      markerListeners |-> markerListeners,
      originCoord |-> originCoord, destinationCoord |-> destinationCoord,
      clicks |-> clicks, clickRole |-> "none" ]

Commit(t) ==
    /\ watches' = t.watches /\ nextWatchId' = t.nextWatchId
    /\ pendingOnce' = t.pendingOnce
    /\ mapReady' = t.mapReady /\ features' = t.features
    /\ nextFeatureId' = t.nextFeatureId
    /\ center' = t.center /\ zoom' = t.zoom
    /\ watchId' = t.watchId /\ following' = t.following
    /\ currentPos' = t.currentPos /\ currentAccuracy' = t.currentAccuracy
    /\ markerFeature' = t.markerFeature /\ accuracyFeature' = t.accuracyFeature
    /\ hasInitialFix' = t.hasInitialFix /\ status' = t.status
    /\ apiBaseUrl' = t.apiBaseUrl /\ rotatual' = t.rotatual
    /\ originMarker' = t.originMarker /\ destinationMarker' = t.destinationMarker
    /\ trafficFeatures' = t.trafficFeatures /\ incidentFeatures' = t.incidentFeatures
    /\ originCoords' = t.originCoords /\ destinationCoords' = t.destinationCoords
    /\ message' = t.message /\ raised' = t.raised /\ comps' = t.comps
    /\ requested' = t.requested /\ answered' = t.answered
    /\ overlapped' = t.overlapped
    /\ timers' = t.timers /\ routeInfo' = t.routeInfo
    /\ routeBody' = t.routeBody
    /\ markerListeners' = t.markerListeners
    /\ originCoord' = t.originCoord /\ destinationCoord' = t.destinationCoord
    /\ clicks' = t.clicks /\ clickRole' = t.clickRole
    /\ UNCHANGED << legacyVars, hostVars, sheetVars >>

Status(msg, acc, fol) == [ msg |-> msg, acc |-> acc, following |-> fol ]
updateStatus(s, msg) == [ s EXCEPT !.status = Status(msg, NoAccuracy, FALSE) ]

Point(coord) == [ type |-> "Point", coord |-> coord, radius |-> 0 ]
Circle(coord, r) == [ type |-> "Circle", coord |-> coord, radius |-> r ]

\* ------------------------------------------------------- position store
\* map_data.js is a set of plain setters over module variables.
setWatchId(s, id) == [ s EXCEPT !.watchId = id ]
\* toggleFollowingState(state) stores the given state; following is only ever
\* read for its truth value.
toggleFollowingState(s, state) == [ s EXCEPT !.following = state ]
setCurrentPos(s, p) == [ s EXCEPT !.currentPos = p ]
setCurrentAccuracy(s, a) == [ s EXCEPT !.currentAccuracy = a ]

\* ------------------------------------------------------- geolocation.js
\* view.setCenter(coord); view.setZoom(Math.max(16, view.getZoom()))
setCenterAndZoom(s, coord) ==
    [ s EXCEPT !.center = coord,
               !.zoom = Max(MinCenterZoom, s.zoom),
               !.calls = s.calls + 1 ]

recordPosition_reliableOnly(s, pos, acc) ==
    IF acc <= GPS_RELIABLE_THRESHOLD
    THEN setCurrentAccuracy(setCurrentPos(s, << pos[1], pos[2] >>), acc)
    ELSE s

\* setCurrentPos([lon, lat]); setCurrentAccuracy(accuracy)
recordPosition(s, pos, acc) ==
    setCurrentAccuracy(setCurrentPos(s, << pos[1], pos[2] >>), acc)

newFeature(s, geom) ==
    [ s EXCEPT !.features = (s.nextFeatureId :> geom) @@ s.features,
               !.nextFeatureId = s.nextFeatureId + 1 ]

setGeometry(s, f, geom) ==
    [ s EXCEPT !.features = [ g \in DOMAIN s.features |->
                                IF g = f THEN geom ELSE s.features[g] ] ]

upsertMarker_alwaysNew(s, coord) ==
    [ newFeature(s, Point(coord)) EXCEPT !.markerFeature = s.nextFeatureId ]

\* if (!marker) { new feature, addFeature, setMarkerFeature } else setGeometry
upsertMarker(s, coord) ==
    IF s.markerFeature = Null
    THEN [ newFeature(s, Point(coord)) EXCEPT !.markerFeature = s.nextFeatureId ]
    ELSE setGeometry(s, s.markerFeature, Point(coord))

\* the accuracy circle, same pattern
upsertAccuracy(s, coord, acc) ==
    IF s.accuracyFeature = Null
    THEN [ newFeature(s, Circle(coord, acc)) EXCEPT !.accuracyFeature = s.nextFeatureId ]
    ELSE setGeometry(s, s.accuracyFeature, Circle(coord, acc))

IsFirstFix_never(hif) == FALSE

\* !hasInitialFix && ENABLE_AUTO_CENTER_ON_START
IsFirstFix(hif) == ~hif /\ ENABLE_AUTO_CENTER_ON_START

ShouldRecenter_anyAccuracy(shouldCenter, force, fol, acc) ==
    shouldCenter \/ force \/ fol

ShouldRecenter_ignoresFollow(shouldCenter, force, fol, acc) ==
    (shouldCenter \/ force) /\ acc <= GPS_RELIABLE_THRESHOLD

\* (shouldCenter || forceInitialCenter || isFollowing()) && accuracy <= GPS_RELIABLE_THRESHOLD
ShouldRecenter(shouldCenter, force, fol, acc) ==
    (shouldCenter \/ force \/ fol) /\ acc <= GPS_RELIABLE_THRESHOLD

MapInitialized_always(s) == TRUE

\* getMapInstance() && getVectorSource(): both are stored at rendercomplete
MapInitialized(s) == s.mapReady

LowPrecision_atThreshold(acc) == acc >= GPS_RELIABLE_THRESHOLD

\* accuracy > GPS_RELIABLE_THRESHOLD (line 92)
LowPrecision(acc) == acc > GPS_RELIABLE_THRESHOLD

handlePosition(s, pos, acc, force) ==
    IF ~MapInitialized(s)
    THEN updateStatus(s, "Erro interno: Mapa nao inicializado para GPS.")
    ELSE
      LET coord == fromLonLat(pos)
          s1 == recordPosition(s, pos, acc)
          shouldCenter == s1.markerFeature = Null
          s2 == upsertMarker(s1, coord)
          s3 == upsertAccuracy(s2, coord, acc)
      IN IF IsFirstFix(s3.hasInitialFix)
         THEN [ setCenterAndZoom(s3, coord) EXCEPT
                  !.hasInitialFix = TRUE,
                  !.status = Status("GPS inicial obtido.", acc, FALSE) ]
         ELSE
           LET s4 == IF ShouldRecenter(shouldCenter, force, s3.following, acc)
                     THEN setCenterAndZoom(s3, coord)
                     ELSE s3
           IN IF LowPrecision(acc)
              THEN [ s4 EXCEPT !.status = Status("GPS ativo, precisao baixa.", acc, FALSE) ]
              ELSE [ s4 EXCEPT !.status = Status("GPS Ativo.", acc, s4.following) ]

handleError_dropsHandle(s, code) ==
    setWatchId(updateStatus(s, "Erro GPS: Sinal indisponivel."), Null)

\* updateStatus(msg), msg chosen by err.code === 1
handleError(s, code) ==
    IF code = 1
    THEN updateStatus(s, "Erro GPS: Permissao negada pelo usuario.")
    ELSE updateStatus(s, "Erro GPS: Sinal indisponivel.")

AlreadyWatching_never(id) == FALSE

\* if (getWatchId()) ... return
AlreadyWatching(id) == id # Null

\* navigator.geolocation.watchPosition(...): a new subscription under a new id > 0
watchPosition(s, force) ==
    [ s EXCEPT !.watches = @ \cup { [ id |-> s.nextWatchId, force |-> force ] },
               !.nextWatchId = s.nextWatchId + 1 ]

\* navigator.geolocation.clearWatch(id)
clearWatch(s, id) == [ s EXCEPT !.watches = { w \in @ : w.id # id } ]

\* The last statement is toggleFollowingState(FontFaceSetLoadEvent): where the
\* browser defines that global it is a constructor, hence a true value; where
\* it does not, evaluating the name throws a ReferenceError after the handle
\* has been stored.
startWatching(s, force) ==
    IF ~hasGeolocation
    THEN updateStatus(s, "Geolocation nao suportado.")
    ELSE IF AlreadyWatching(s.watchId)
    THEN updateStatus(s, "Rastreamento GPS ja esta ativo.")
    ELSE LET s1 == setWatchId(watchPosition(s, force), s.nextWatchId)
         IN IF hasFontFaceSetLoadEvent
            THEN toggleFollowingState(s1, TRUE)
            ELSE s1

disableFollowOnMapDrag_toggles(s) == toggleFollowingState(s, ~s.following)

disableFollowOnMapDrag(s) ==
    IF s.following
    THEN updateStatus(toggleFollowingState(s, FALSE),
                      "Modo Seguir Desativado (Movimento manual detectado).")
    ELSE s

getCurrentOnceAndStartWatch(s, forceCenter) == startWatching(s, forceCenter)

stopWatching_leavesSubscription(s) ==
    IF s.watchId # Null
    THEN updateStatus(
           [ toggleFollowingState(setWatchId(s, Null), FALSE)
               EXCEPT !.hasInitialFix = FALSE ],
           "Rastreamento GPS desativado.")
    ELSE s

stopWatching_keepsFix(s) ==
    IF s.watchId # Null
    THEN updateStatus(
           toggleFollowingState(setWatchId(clearWatch(s, s.watchId), Null), FALSE),
           "Rastreamento GPS desativado.")
    ELSE s

stopWatching(s) ==
    IF s.watchId # Null
    THEN updateStatus(
           [ toggleFollowingState(setWatchId(clearWatch(s, s.watchId), Null), FALSE)
               EXCEPT !.hasInitialFix = FALSE ],
           "Rastreamento GPS desativado.")
    ELSE s

toggleFollow(s) ==
    LET s1 == toggleFollowingState(s, ~s.following)
    IN updateStatus(s1, IF s1.following THEN "Modo Seguir Ativado."
                                        ELSE "Modo Seguir Desativado.")

\* navigator.geolocation.getCurrentPosition(success, error, options)
\* Requests with the same forceCenter have the same callbacks, and issuing one
\* changes nothing else, so one pending request per value stands for any number.
getCurrentPosition(s, force) ==
    [ s EXCEPT !.pendingOnce = @ \cup { force } ]

initMapWithCurrentPosition(s, forceCenter) ==
    IF ~hasGeolocation
    THEN updateStatus(s, "Geolocation nao suportado.")
    ELSE getCurrentPosition(s, forceCenter)

\* success callback of the one-shot read.  createMap is defined nowhere, so
\* with no map instance the callback ends in a ReferenceError before it
\* reaches startWatching.
onceSuccess(s, pos, acc, forceCenter) ==
    LET s1 == handlePosition(s, pos, acc, forceCenter)
    IN IF ~s1.mapReady THEN s1
       ELSE IF s1.watchId = Null THEN startWatching(s1, FALSE)
       ELSE s1

\* error callback of the one-shot read
onceError(s) == startWatching(s, FALSE)

centerMapOnCurrentPos(s) ==
    IF s.currentPos # NoPos /\ s.mapReady
    THEN updateStatus(setCenterAndZoom(s, fromLonLat(s.currentPos)),
                      "Mapa centralizado na sua posicao atual.")
    ELSE updateStatus(s, "Posicao GPS atual nao disponivel para centralizar.")

\* ---------------------------------------------------------- observation
\* What the step of handler op from program state s to program state t did.
IsCallback(op) == op \in { "watchCallback", "onceSuccess" }
Accepted(op, s) == IsCallback(op) /\ s.mapReady
Subscribed(s, t) == t.nextWatchId > s.nextWatchId
Stopped(op, s) == op = "stopWatching" /\ s.watchId # Null
MarkerCreated(s, t) == t.markerFeature # s.markerFeature /\ t.markerFeature # Null

NoReading == [ by |-> "none", pos |-> NoPos, acc |-> NoAccuracy, force |-> FALSE ]
Reading(by, pos, acc, force) == [ by |-> by, pos |-> pos, acc |-> acc, force |-> force ]

\* The step of handler op that takes the program from Cur to next.
Step(op, reading, next) ==
    \E s \in { Cur } : \E t \in { next } :
       /\ Commit(t)
       /\ UNCHANGED envVars
       /\ calls' = t.calls
       /\ delivered' = reading
       /\ awaitingFirst' = IF Subscribed(s, t) THEN TRUE
                           ELSE IF Accepted(op, s) \/ Stopped(op, s) THEN FALSE
                           ELSE awaitingFirst
       /\ acceptedSinceStop' = IF Accepted(op, s) THEN TRUE
                               ELSE IF Stopped(op, s) THEN FALSE
                               ELSE acceptedSinceStop
       /\ stoppedBefore' = (stoppedBefore \/ Stopped(op, s))
       /\ markerCreations' = markerCreations + (IF MarkerCreated(s, t) THEN 1 ELSE 0)
       /\ sessionCreations' = IF Stopped(op, s) THEN 0
                              ELSE sessionCreations + (IF MarkerCreated(s, t) THEN 1 ELSE 0)
       /\ sessionAccepted' = IF Subscribed(s, t) \/ Stopped(op, s) THEN 0
                             ELSE IF op = "watchCallback" /\ s.mapReady THEN 1
                             ELSE sessionAccepted

\* The host page with a stored token: the dashboard with the map frame.
StoredToken == "stored-token"
NoBody == Body(NoSlot, NoSlot, NoSlot, NoSlot, NoSlot)
HostLoggedIn ==
    /\ posted = 0
    /\ token = StoredToken /\ localStorageToken = StoredToken
    /\ username = "" /\ password = "" /\ error = ""
    /\ loading = FALSE /\ loginRequests = << >> /\ loginSent = 0
    /\ routeBody = NoBody

\* The legacy page before any drawRoute call.
LegacyInitial ==
    /\ is_drawing_route = FALSE
    /\ legacyRotatual = Null
    /\ layers = {}
    /\ nextLayerId = 1
    /\ legacyStatus = ""
    /\ legacyFit = Null
    /\ legacyCalls = << >>
    /\ rejected = FALSE
    /\ sent = 0

\* ------------------------------------------------------------------ Init
\* bottom_sheet.js: a let that has not been assigned (undefined).
Unset == -1

\* Heights of the window, in px.
WindowHeights == { 600, 800 }
\* The window opens at the smaller one.
OpeningHeight == CHOOSE h \in WindowHeights : \A g \in WindowHeights : h <= g

\* The bottom sheet after its script has run, the load event still to come.
\* The sheet's max-height and aria-hidden are then what the stylesheet and the
\* markup say.
SheetLoading(height, aria) ==
    /\ loaded = FALSE
    /\ innerHeight = OpeningHeight
    /\ sheetMaxHeight = height
    /\ ariaHidden = aria
    /\ currentSnap = "closed"
    /\ dragging = FALSE
    /\ startMax = Unset
    /\ SNAP_MIN = Unset /\ SNAP_MID = Unset /\ SNAP_FULL = Unset /\ SNAP_CLOSED = Unset
    /\ sheetOp = "none"

\* A page whose markup and stylesheet keep the sheet shut.
SheetInitial == SheetLoading(0, "true")

\* The page after DOMContentLoaded: initializeMap has built the map and its
\* view, rendercomplete has not fired yet, nothing is tracked.
TrackerPage ==
    /\ hasGeolocation \in BOOLEAN
    /\ hasFontFaceSetLoadEvent \in BOOLEAN
    /\ uiNamesDeclared = TRUE
    /\ watches = {}
    /\ nextWatchId = 1
    /\ pendingOnce = {}
    /\ mapReady = FALSE
    /\ features = << >>
    /\ nextFeatureId = 1
    /\ center = InitialCenter
    /\ zoom = InitialZoom
    /\ watchId = Null
    /\ following = FALSE
    /\ currentPos = NoPos
    /\ currentAccuracy = NoAccuracy
    /\ markerFeature = Null
    /\ accuracyFeature = Null
    /\ hasInitialFix = FALSE
    /\ status = Status("", NoAccuracy, FALSE)
    /\ apiBaseUrl = FALSE
    /\ rotatual = Null
    /\ originMarker = Null
    /\ destinationMarker = Null
    /\ trafficFeatures = << >>
    /\ incidentFeatures = << >>
    /\ originCoords = NoPos
    /\ destinationCoords = NoPos
    /\ message = ""
    /\ raised = FALSE
    /\ comps = << >>
    /\ requested = {}
    /\ answered = NoAnswer
    /\ overlapped = FALSE
    /\ timers = 0 /\ routeInfo = NoInfo
    /\ markerListeners = 0
    /\ originCoord = NoPos /\ destinationCoord = NoPos
    /\ clicks = 0 /\ clickRole = "none"
    /\ awaitingFirst = FALSE
    /\ acceptedSinceStop = FALSE
    /\ stoppedBefore = FALSE
    /\ markerCreations = 0
    /\ sessionCreations = 0
    /\ sessionAccepted = 0
    /\ calls = 0
    /\ delivered = NoReading
    /\ LegacyInitial
    /\ HostLoggedIn

Init == SheetInitial /\ TrackerPage

\* ============================================================ map_utils.js
\* The route overlay.  A route feature records, besides its geometry, the
\* computation whose code added it (of) and whether its style shows it.
Range(q) == { q[i] : i \in DOMAIN q }

\* zoom level at which view.fit shows a route's extent
FitZoom == 13

LineString(o, d, c, visible) ==
    [ type |-> "LineString", coord |-> fromLonLat(o) \o fromLonLat(d), radius |-> 0,
      of |-> c, visible |-> visible ]
TrafficSegment(c, idx) ==
    [ type |-> "Traffic", coord |-> << idx >>, radius |-> 0, of |-> c, visible |-> TRUE ]
Incident(c, idx) ==
    [ type |-> "Incident", coord |-> << idx >>, radius |-> 0, of |-> c, visible |-> TRUE ]
RouteMarker(name, lonlat, c) ==
    [ type |-> name, coord |-> fromLonLat(lonlat), radius |-> 0, of |-> c, visible |-> TRUE ]

\* route store (map_data.js)
setRotatual(s, f) == [ s EXCEPT !.rotatual = f ]
setOriginMarker(s, f) == [ s EXCEPT !.originMarker = f ]
setDestinationMarker(s, f) == [ s EXCEPT !.destinationMarker = f ]
setOriginCoords(s, c) == [ s EXCEPT !.originCoords = c ]
setDestinationCoords(s, c) == [ s EXCEPT !.destinationCoords = c ]
\* ui_utils.js
showMessage(s, text) == [ s EXCEPT !.message = text ]

\* vectorSource.removeFeature(f).  Removing a feature the source does not hold
\* raises a TypeError in OpenLayers before version 7.
removeFeature(s, f) ==
    IF f \in DOMAIN s.features
    THEN [ s EXCEPT !.features = [ g \in (DOMAIN s.features) \ { f } |-> s.features[g] ] ]
    ELSE [ s EXCEPT !.raised = TRUE ]

\* try { vectorSource.removeFeature(feature) } catch (e) { console.debug(...) }
tryRemoveFeature(s, f) == [ removeFeature(s, f) EXCEPT !.raised = s.raised ]

RECURSIVE removeEach(_, _)
removeEach(s, q) ==
    IF q = << >> THEN s ELSE removeEach(removeFeature(s, Head(q)), Tail(q))

RECURSIVE tryRemoveEach(_, _)
tryRemoveEach(s, q) ==
    IF q = << >> THEN s ELSE tryRemoveEach(tryRemoveFeature(s, Head(q)), Tail(q))

\* if (rotatual) { removeFeature(rotatual); setRotatual(null) }
clearRouteLine(s) ==
    IF s.rotatual # Null
    THEN setRotatual(removeFeature(s, s.rotatual), Null)
    ELSE s

clearMarkers_keepsReferences(s) ==
    LET s1 == IF s.originMarker # Null THEN removeFeature(s, s.originMarker) ELSE s
    IN IF s1.destinationMarker # Null THEN removeFeature(s1, s1.destinationMarker) ELSE s1

\* markers.forEach(remove if set); setOriginMarker(null); setDestinationMarker(null)
clearMarkers(s) ==
    LET s1 == IF s.originMarker # Null THEN removeFeature(s, s.originMarker) ELSE s
        s2 == IF s1.destinationMarker # Null
              THEN removeFeature(s1, s1.destinationMarker) ELSE s1
    IN setDestinationMarker(setOriginMarker(s2, Null), Null)

clearTraffic(s) ==
    [ tryRemoveEach(s, s.trafficFeatures) EXCEPT !.trafficFeatures = << >> ]

clearIncidents(s) ==
    [ tryRemoveEach(s, s.incidentFeatures) EXCEPT !.incidentFeatures = << >> ]

clearCoords(s) == setDestinationCoords(setOriginCoords(s, NoPos), NoPos)

\* Everything happens under if (vectorSource).
clearRoute_unfollows(s) == [ s EXCEPT !.following = FALSE ]

clearRoute(s) ==
    IF s.mapReady
    THEN clearCoords(clearIncidents(clearTraffic(clearMarkers(clearRouteLine(s)))))
    ELSE s

drawRouteMarkers_keepsOld(s, c) ==
    IF ~s.mapReady THEN [ s EXCEPT !.markerListeners = @ + 1 ]
    ELSE IF s.originCoords = NoPos \/ s.destinationCoords = NoPos THEN s
    ELSE
      LET s3 == setOriginMarker(newFeature(s, RouteMarker("Origem", s.originCoords, c)),
                                s.nextFeatureId)
      IN setDestinationMarker(
             newFeature(s3, RouteMarker("Destino", s3.destinationCoords, c)),
             s3.nextFeatureId)

\* Called by computation c (0: by no computation).  Without a vector source
\* the function only registers a once-listener for mapReady.
drawRouteMarkers(s, c) ==
    IF ~s.mapReady THEN [ s EXCEPT !.markerListeners = @ + 1 ]
    ELSE IF s.originCoords = NoPos \/ s.destinationCoords = NoPos THEN s
    ELSE
      LET s1 == IF s.originMarker # Null THEN removeFeature(s, s.originMarker) ELSE s
          s2 == IF s1.destinationMarker # Null
                THEN removeFeature(s1, s1.destinationMarker) ELSE s1
          s3 == setOriginMarker(newFeature(s2, RouteMarker("Origem", s2.originCoords, c)),
                                s2.nextFeatureId)
      IN setDestinationMarker(
             newFeature(s3, RouteMarker("Destino", s3.destinationCoords, c)),
             s3.nextFeatureId)

\* The listener of lines 85-92: if (vs && o && d) drawRouteMarkers()
markersWhenReady(s) ==
    IF s.mapReady /\ s.originCoords # NoPos /\ s.destinationCoords # NoPos
    THEN drawRouteMarkers(s, 0)
    ELSE s

\* document.dispatchEvent(new CustomEvent('mapReady')) as far as the
\* listeners of drawRouteMarkers go: each runs once and is gone.
RECURSIVE runMarkerListeners(_, _)
runMarkerListeners(s, n) ==
    IF n = 0 THEN s ELSE runMarkerListeners(markersWhenReady(s), n - 1)

dispatchMapReady(s) ==
    [ runMarkerListeners(s, s.markerListeners) EXCEPT !.markerListeners = 0 ]

\* map_init.js, the rendercomplete listener
renderComplete(s) ==
    dispatchMapReady([ s EXCEPT !.mapReady = TRUE, !.apiBaseUrl = TRUE ])

\* segments.forEach: new feature, addFeature, trafficFeatures.push
RECURSIVE addSegments(_, _, _, _)
addSegments(s, c, idx, n) ==
    IF idx > n THEN s
    ELSE addSegments([ newFeature(s, TrafficSegment(c, idx))
                         EXCEPT !.trafficFeatures = Append(@, s.nextFeatureId) ],
                     c, idx + 1, n)

drawTrafficSegments(s, c, n) ==
    IF ~s.mapReady \/ n = 0 THEN s ELSE addSegments(s, c, 1, n)

RECURSIVE addIncidents(_, _, _, _)
addIncidents(s, c, idx, n) ==
    IF idx > n THEN s
    ELSE addIncidents([ newFeature(s, Incident(c, idx))
                          EXCEPT !.incidentFeatures = Append(@, s.nextFeatureId) ],
                      c, idx + 1, n)

drawTrafficIncidents(s, c, n) ==
    IF ~s.mapReady \/ n = 0 THEN s ELSE addIncidents(s, c, 1, n)

\* view.fit(extent, ...): the view shows the whole line
fit(s, line) ==
    [ s EXCEPT !.center = << (line[1] + line[3]) \div 2, (line[2] + line[4]) \div 2 >>,
               !.zoom = FitZoom ]

removePreviousRoute_keeps(s) == setRotatual(s, Null)

\* const rotatual = getRotatual(); if (rotatual) { removeFeature; setRotatual(null) }
removePreviousRoute(s) ==
    IF s.rotatual # Null
    THEN setRotatual(removeFeature(s, s.rotatual), Null)
    ELSE s

removePreviousTraffic_forgets(s) ==
    [ s EXCEPT !.trafficFeatures = << >>, !.incidentFeatures = << >> ]

\* trafficFeatures.forEach(remove); = []; incidentFeatures.forEach(remove); = []
removePreviousTraffic(s) ==
    LET s1 == [ removeEach(s, s.trafficFeatures) EXCEPT !.trafficFeatures = << >> ]
    IN [ removeEach(s1, s1.incidentFeatures) EXCEPT !.incidentFeatures = << >> ]

BaseLineShown_always(segments) == TRUE

\* if (trafficSegments.length === 0) routeStyle, else a stroke of rgba(0,0,0,0)
BaseLineShown(segments) == segments = 0

\* drawRouteOnMap(geojsonResult), run by computation c for the response resp
\* to its request from o to d.  resp counts the features of each kind.
drawRouteOnMap(s, c, o, d, resp) ==
    IF ~s.mapReady THEN s
    ELSE
      LET s1 == removePreviousTraffic(removePreviousRoute(s))
      IN IF resp.routes + resp.segments + resp.incidents = 0 THEN s1
         ELSE
           LET line == LineString(o, d, c, BaseLineShown(resp.segments))
               s2 == IF resp.routes > 0
                     THEN fit(setRotatual(newFeature(s1, line), s1.nextFeatureId),
                              line.coord)
                     ELSE s1
           IN drawTrafficIncidents(drawTrafficSegments(s2, c, resp.segments),
                                   c, resp.incidents)

\* --------------------------------------------------------------- actions
\* map.once('rendercomplete'): map instance and vector source are stored, the
\* pointerdrag listener is registered, the API base URL is set and mapReady
\* is dispatched.
RenderComplete ==
    /\ ~mapReady
    /\ Step("rendercomplete", NoReading, renderComplete(Cur))

\* A start request (the locate button passes true).
StartRequest(force) ==
    LET t == getCurrentOnceAndStartWatch(Cur, force)
    IN /\ t.nextWatchId <= MaxWatches + 1
       /\ Step("start", NoReading, t)

GetCurrentOnceAndStartWatch ==
    \E force \in BOOLEAN : StartRequest(force)

\* The browser delivers a reading to the live subscription w.
WatchCallback(w, pos, acc) ==
    /\ w \in watches
    /\ Step("watchCallback", Reading("watch", pos, acc, w.force), handlePosition(Cur, pos, acc, w.force))

WatchPosition ==
    \E w \in watches, pos \in Positions, acc \in Accuracies :
        WatchCallback(w, pos, acc)

\* The browser reports a sensor error to a live subscription.
WatchError ==
    \E w \in watches, code \in ErrorCodes :
        Step("watchError", NoReading, handleError(Cur, code))

StopWatching ==
    \E t \in { stopWatching(Cur) } : Step("stopWatching", NoReading, t)

ToggleFollow ==
    \E t \in { toggleFollow(Cur) } : Step("toggleFollow", NoReading, t)

\* map.on('pointerdrag'): the drag pans the view and the listener runs.
PointerDrag ==
    /\ mapReady
    /\ \E c \in { center, DraggedCenter } :
         Step("pointerdrag", NoReading, disableFollowOnMapDrag([ Cur EXCEPT !.center = c ]))

\* ol.control.Zoom buttons
ZoomIn ==
    /\ zoom >= ZoomOutFloor
    /\ zoom < ZoomInCeiling
    /\ Step("zoom", NoReading, [ Cur EXCEPT !.zoom = zoom + 1 ])

ZoomOut ==
    /\ zoom > ZoomOutFloor
    /\ Step("zoom", NoReading, [ Cur EXCEPT !.zoom = zoom - 1 ])

InitMapWithCurrentPosition ==
    \E force \in BOOLEAN :
        /\ force \notin pendingOnce
        /\ Step("initMap", NoReading, initMapWithCurrentPosition(Cur, force))

\* The one-shot read requested with forceCenter = force answers with a position.
OnceCallback(force, pos, acc) ==
    /\ force \in pendingOnce
    /\ LET t == onceSuccess([ Cur EXCEPT !.pendingOnce = @ \ { force } ],
                            pos, acc, force)
       IN /\ t.nextWatchId <= MaxWatches + 1
          /\ Step("onceSuccess", Reading("once", pos, acc, force), t)

OnceSuccess ==
    \E force \in BOOLEAN, pos \in Positions, acc \in Accuracies :
        OnceCallback(force, pos, acc)

\* The one-shot read requested with forceCenter = force fails.
OnceFailure(force) ==
    /\ force \in pendingOnce
    /\ LET t == onceError([ Cur EXCEPT !.pendingOnce = @ \ { force } ])
       IN /\ t.nextWatchId <= MaxWatches + 1
          /\ Step("onceError", NoReading, t)

OnceError ==
    \E force \in BOOLEAN : OnceFailure(force)

CenterMapOnCurrentPos ==
    \E t \in { centerMapOnCurrentPos(Cur) } : Step("center", NoReading, t)

Next ==
    \/ RenderComplete
    \/ GetCurrentOnceAndStartWatch
    \/ WatchPosition
    \/ WatchError
    \/ StopWatching
    \/ ToggleFollow
    \/ PointerDrag
    \/ ZoomIn
    \/ ZoomOut
    \/ InitMapWithCurrentPosition
    \/ OnceSuccess
    \/ OnceError
    \/ CenterMapOnCurrentPos

Spec == Init /\ [][Next]_vars

\* A feature of the answer: properties.feature_type ("" when there is none),
\* geometry.type, and where its geometry starts and ends.
GeoFeature(featureType, geometry, from, to) ==
    [ feature_type |-> featureType, geometry |-> geometry, from |-> from, to |-> to ]

IsRouteFeature_anyUntyped(f) ==
    \/ f.feature_type = "route_reference"
    \/ f.feature_type = "route_basic"
    \/ f.feature_type = ""

\* the predicate of features.filter, lines 289-293
IsRouteFeature(f) ==
    \/ f.feature_type = "route_reference"
    \/ f.feature_type = "route_basic"
    \/ (f.feature_type = "" /\ f.geometry = "LineString")

routeFeatures(fc) == SelectSeq(fc, IsRouteFeature)
IsTrafficSegment(f) == f.feature_type = "traffic_segment"
trafficSegments(fc) == SelectSeq(fc, IsTrafficSegment)
IsIncident(f) == f.feature_type = "traffic_incident"
incidentsIn(fc) == SelectSeq(fc, IsIncident)

\* ========================================================== route_logic.js
\* Route computations started in one run.
MaxComputations == 2

\* What the user types: origin 'GPS' or an address, and a destination address.
OriginInputs == { "GPS", "Rua Augusta, 100" }
DestinationInputs == { "Praca da Se" }
\* Where the geocoder puts an address, <<lon, lat>> in 1/100 degree.
Geocoded(address) ==
    IF address = "Rua Augusta, 100" THEN << -4666, -2355 >> ELSE << -4663, -2355 >>
\* Origin and destination of a click-to-route pair.
ClickPairs == { << << -4660, -2350 >>, << -4650, -2360 >> >> }
\* Answers of the geocoding endpoint: coordinates, an error body, no connection.
GeocodeOutcomes == { "ok", "notFound", "network" }
\* Answers of the routing endpoint: a feature collection (with the number of
\* route lines, traffic segments and incidents in it), a non-2xx status, no
\* connection.
Response(kind, routes, segments, incidents) ==
    [ kind |-> kind, routes |-> routes, segments |-> segments, incidents |-> incidents,
      fc |-> << >> ]
RouteResponses ==
    { Response("ok", 1, 0, 0), Response("ok", 1, 2, 1), Response("ok", 0, 0, 0),
      Response("http", 0, 0, 0), Response("network", 0, 0, 0) }

\* One run of calculateRouteFromAddresses / calculateAndDrawRoute: its
\* arguments, its locals originCoords / destinationCoords, the await it is
\* suspended at (pc), and whether the clear button was pressed while its
\* routing request was in flight.
Computation(kind, originInput, destinationInput) ==
    [ kind |-> kind, originInput |-> originInput, destinationInput |-> destinationInput,
      pc |-> "start", origin |-> NoPos, destination |-> NoPos, cleared |-> FALSE ]

Done == [ Computation("", "", "") EXCEPT !.pc = "done" ]

\* events.js, the click handler's .then / .catch on the promise of
\* window.drawRoute: the pair is over whichever way the computation ends.
pairSettled(s) == [ s EXCEPT !.originCoord = NoPos, !.destinationCoord = NoPos ]

\* The async function returns: its arguments and locals are gone.  The promise
\* of a computation the click handler started settles into that handler's
\* .then / .catch.
finish(s, c) ==
    LET s1 == [ s EXCEPT !.comps[c] = Done ]
    IN IF s.comps[c].kind = "click" THEN pairSettled(s1) ELSE s1

\* A computation starts; others may be suspended at an await.
spawn(s, comp) ==
    [ s EXCEPT !.comps = Append(@, comp),
               !.overlapped = @ \/ (\E k \in DOMAIN s.comps : s.comps[k].pc # "done") ]

ACC_THRESHOLD == GPS_RELIABLE_THRESHOLD

GpsTooImprecise_atThreshold(acc) == acc # NoAccuracy /\ acc # 0 /\ acc >= ACC_THRESHOLD

\* acc && acc > ACC_THRESHOLD
GpsTooImprecise(acc) == acc # NoAccuracy /\ acc # 0 /\ acc > ACC_THRESHOLD

\* ---------------------------------------------------------------- text
\* Strings are sequences of characters.  The white space that occurs is the
\* space character.
IsSpace(ch) == ch = " "
IsDigit(ch) == ch \in { "0", "1", "2", "3", "4", "5", "6", "7", "8", "9" }
DigitValue(ch) ==
    CASE ch = "0" -> 0 [] ch = "1" -> 1 [] ch = "2" -> 2 [] ch = "3" -> 3
      [] ch = "4" -> 4 [] ch = "5" -> 5 [] ch = "6" -> 6 [] ch = "7" -> 7
      [] ch = "8" -> 8 [] ch = "9" -> 9

RECURSIVE trimStart(_)
trimStart(text) ==
    IF text # "" /\ IsSpace(Head(text)) THEN trimStart(Tail(text)) ELSE text

RECURSIVE trimEnd(_)
trimEnd(text) ==
    IF text # "" /\ IsSpace(SubSeq(text, Len(text), Len(text)))
    THEN trimEnd(SubSeq(text, 1, Len(text) - 1))
    ELSE text

\* String.prototype.trim
trim(text) == trimEnd(trimStart(text))

UpperChar(ch) ==
    CASE ch = "a" -> "A" [] ch = "b" -> "B" [] ch = "c" -> "C" [] ch = "d" -> "D"
      [] ch = "e" -> "E" [] ch = "f" -> "F" [] ch = "g" -> "G" [] ch = "h" -> "H"
      [] ch = "i" -> "I" [] ch = "j" -> "J" [] ch = "k" -> "K" [] ch = "l" -> "L"
      [] ch = "m" -> "M" [] ch = "n" -> "N" [] ch = "o" -> "O" [] ch = "p" -> "P"
      [] ch = "q" -> "Q" [] ch = "r" -> "R" [] ch = "s" -> "S" [] ch = "t" -> "T"
      [] ch = "u" -> "U" [] ch = "v" -> "V" [] ch = "w" -> "W" [] ch = "x" -> "X"
      [] ch = "y" -> "Y" [] ch = "z" -> "Z" [] OTHER -> ch

\* String.prototype.toUpperCase
RECURSIVE toUpperCase(_)
toUpperCase(text) ==
    IF text = "" THEN "" ELSE UpperChar(Head(text)) \o toUpperCase(Tail(text))

\* Two strings are equal up to the case of their letters
\* (a.toLowerCase() === 'gps' for the lower-case literal 'gps').
SameIgnoringCase(a, b) == toUpperCase(a) = toUpperCase(b)

\* The digits a text starts with.
RECURSIVE LeadingDigits(_)
LeadingDigits(text) ==
    IF text # "" /\ IsDigit(Head(text))
    THEN Head(text) \o LeadingDigits(Tail(text))
    ELSE ""

RECURSIVE DigitsValue(_, _)
DigitsValue(digits, acc) ==
    IF digits = "" THEN acc
    ELSE DigitsValue(Tail(digits), 10 * acc + DigitValue(Head(digits)))

RECURSIVE Pow10(_)
Pow10(k) == IF k = 0 THEN 1 ELSE 10 * Pow10(k - 1)

Drop(text, n) == SubSeq(text, n + 1, Len(text))

\* A decimal number: mantissa m and k fraction digits, m / 10^k.
Decimal(m, k) == [ m |-> m, k |-> k ]
Abs(n) == IF n < 0 THEN -n ELSE n
\* Math.abs(x) <= limit
AbsAtMost(x, limit) == Abs(x.m) <= limit * Pow10(x.k)
\* The number in 1/100 degree, the unit of the coordinates here.
Hundredths(x) ==
    IF x.m < 0 THEN -((-x.m * 100) \div Pow10(x.k)) ELSE (x.m * 100) \div Pow10(x.k)

NoMatch == [ ok |-> FALSE, value |-> Decimal(0, 0), rest |-> "" ]

\* parseFloat of the sign, the integer digits and the fraction digits of a
\* group; rest is what follows the group.
numberOf(negative, int, frac, rest) ==
    IF Len(int) < 1 \/ Len(int) > 3 THEN NoMatch
    ELSE [ ok |-> TRUE,
           value |-> Decimal(IF negative THEN -DigitsValue(int \o frac, 0)
                             ELSE DigitsValue(int \o frac, 0), Len(frac)),
           rest |-> IF frac # "" THEN Drop(rest, 1 + Len(frac)) ELSE rest ]

\* (?:\.\d+)? at the start of text: the digits after the point
FractionDigits(text) ==
    IF text # "" /\ Head(text) = "." THEN LeadingDigits(Tail(text)) ELSE ""

matchFraction(negative, int, text) ==
    numberOf(negative, int, FractionDigits(text), text)

\* \d{1,3} at the start of text
matchDigits(negative, int, text) ==
    matchFraction(negative, int, Drop(text, Len(int)))

\* [-+]? at the start of text
Signed(text) == text # "" /\ Head(text) \in { "-", "+" }
Unsigned(text) == IF Signed(text) THEN Tail(text) ELSE text

matchUnsigned(negative, text) == matchDigits(negative, LeadingDigits(text), text)

\* One group ([-+]?\d{1,3}(?:\.\d+)?) at the start of text.
matchNumber(text) == matchUnsigned(Signed(text) /\ Head(text) = "-", Unsigned(text))

\* if (Math.abs(a) <= 90 && Math.abs(b) <= 180) return { lon: b, lat: a };
\* if (Math.abs(b) <= 90 && Math.abs(a) <= 180) return { lon: a, lat: b };
\* return null.  The result is <<lon, lat>> in 1/100 degree, NoPos for null.
orderCoordinates(a, b) ==
    IF AbsAtMost(a, 90) /\ AbsAtMost(b, 180) THEN << Hundredths(b), Hundredths(a) >>
    ELSE IF AbsAtMost(b, 90) /\ AbsAtMost(a, 180) THEN << Hundredths(a), Hundredths(b) >>
    ELSE NoPos

\* the second group, then \s*$
matchSecond(a, second) ==
    IF ~second.ok \/ trimStart(second.rest) # "" THEN NoPos
    ELSE orderCoordinates(a, second.value)

\* \s*,\s* and the second group
matchSeparator(a, text) ==
    IF text = "" \/ Head(text) # "," THEN NoPos
    ELSE matchSecond(a, matchNumber(trimStart(Tail(text))))

\* the first group
matchFirst(first) ==
    IF ~first.ok THEN NoPos ELSE matchSeparator(first.value, trimStart(first.rest))

\* parseCoordinateString(text):
\* /^\s*([-+]?\d{1,3}(?:\.\d+)?)\s*,\s*([-+]?\d{1,3}(?:\.\d+)?)\s*$/
\* on the trimmed text.
parseCoordinateString(text) ==
    IF text = "" THEN NoPos ELSE matchFirst(matchNumber(trimStart(trim(text))))

ParsedLocally_never(text) == NoPos

\* const coord = parseCoordinateString(address); if (coord) return coord
ParsedLocally(text) == parseCoordinateString(text)

\* geocodeAddress(address) up to its await, for the origin (which =
\* "geocodeOrigin") or the destination of computation c: without an API base
\* URL it shows an error and resolves to null, which ends the computation; a
\* coordinate-shaped address resolves at once (pc "resolved"); otherwise the
\* request is sent.
geocodeAddress(s, c, which) ==
    LET address == IF which = "geocodeOrigin"
                   THEN s.comps[c].originInput ELSE s.comps[c].destinationInput
        coord == ParsedLocally(address)
    IN IF ~s.apiBaseUrl
       THEN finish(showMessage(s, "Erro: URL do servidor nao definida."), c)
       ELSE IF coord # NoPos
       THEN IF which = "geocodeOrigin"
            THEN [ s EXCEPT !.comps[c].pc = "resolved", !.comps[c].origin = coord ]
            ELSE [ s EXCEPT !.comps[c].pc = "resolved", !.comps[c].destination = coord ]
       ELSE [ s EXCEPT !.comps[c].pc = which, !.requested = @ \cup { which } ]

\* 3. setOriginCoords(originCoords); setDestinationCoords(destinationCoords);
\* 4. await waitForMapReady()
coordsResolved(s, c) ==
    [ setDestinationCoords(setOriginCoords(s, s.comps[c].origin), s.comps[c].destination)
        EXCEPT !.comps[c].pc = "waitForMapReady" ]

\* 2. const destinationCoords = await geocodeAddress(destinationInput)
resolveDestination(s, c) ==
    LET s1 == geocodeAddress(s, c, "geocodeDestination")
    IN IF s1.comps[c].pc = "resolved" THEN coordsResolved(s1, c) ELSE s1

resolveOrigin_skipped(s, c) == resolveDestination(s, c)

\* 1. originCoords = await geocodeAddress(originInput)
resolveOrigin(s, c) ==
    LET s1 == geocodeAddress(s, c, "geocodeOrigin")
    IN IF s1.comps[c].pc = "resolved" THEN resolveDestination(s1, c) ELSE s1

\* calculateRouteFromAddresses up to its first await
calculateRouteFromAddresses(s, originInput, destinationInput) ==
    LET c == Len(s.comps) + 1
        s1 == showMessage(clearRoute(s), "Calculando rota...")
        s2 == spawn(s1, Computation("addresses", originInput, destinationInput))
    IN IF toUpperCase(originInput) = "GPS"
       THEN IF s2.currentPos # NoPos
            THEN IF GpsTooImprecise(s2.currentAccuracy)
                 THEN finish(showMessage(s2, "Posicao GPS disponivel, mas imprecisa."), c)
                 ELSE resolveDestination(
                        showMessage([ s2 EXCEPT !.comps[c].origin = s2.currentPos ],
                                    "Origem definida pela sua localizacao GPS."),
                        c)
            ELSE finish(showMessage(s2, "Erro: Posicao GPS nao disponivel."), c)
       ELSE resolveOrigin(s2, c)

sessionExpired_forgets(s) == s

\* setTimeout(() => window.parent.postMessage({ type: 'SESSION_EXPIRED' }, '*'), 2000)
sessionExpired(s) == [ s EXCEPT !.timers = @ + 1 ]

\* the rest of geocodeAddress, and calculateRouteFromAddresses up to its next await
\* The rest of geocodeAddress after its await: it resolves to the coordinates
\* of the answer or, after a message, to null.  A 401 also arms the
\* SESSION_EXPIRED timer.
geocodeSettled(s, c, outcome) ==
    LET which == s.comps[c].pc
        address == IF which = "geocodeOrigin"
                   THEN s.comps[c].originInput ELSE s.comps[c].destinationInput
        coord == IF outcome = "ok" THEN Geocoded(address) ELSE NoPos
        s1 == CASE outcome = "unauthorized" ->
                     sessionExpired(showMessage(s, "Sessao expirada. Faca login novamente."))
                [] outcome = "network" ->
                     showMessage(s, "Erro de conexao ao geocodificar o endereco.")
                [] outcome = "notFound" -> showMessage(s, "Erro de geocodificacao.")
                [] OTHER -> s
    IN IF which = "geocodeOrigin"
       THEN [ s1 EXCEPT !.comps[c].origin = coord ]
       ELSE [ s1 EXCEPT !.comps[c].destination = coord ]

Aborts_never(coord) == FALSE

\* if (!originCoords) return;  if (!destinationCoords) return;
Aborts(coord) == coord = NoPos

geocodeResponse(s, c, outcome) ==
    LET which == s.comps[c].pc
        s1 == geocodeSettled(s, c, outcome)
        coord == IF which = "geocodeOrigin"
                 THEN s1.comps[c].origin ELSE s1.comps[c].destination
    IN IF Aborts(coord) THEN finish(s1, c)
       ELSE IF which = "geocodeOrigin" THEN resolveDestination(s1, c)
       ELSE coordsResolved(s1, c)

\* fetchRouteData(origin, destination, constraints) up to its await
fetchRouteData(s, c) ==
    IF ~s.apiBaseUrl
    THEN finish(showMessage(s, "Erro: URL do servidor nao definida."), c)
    ELSE [ s EXCEPT !.comps[c].pc = "fetchRouteData", !.requested = @ \cup { "route" } ]

\* after await waitForMapReady(): markers, constraints, routing request
afterMapReady(s, c) ==
    IF s.comps[c].kind = "addresses"
    THEN IF s.originCoords # NoPos /\ s.destinationCoords # NoPos
         THEN fetchRouteData(drawRouteMarkers(s, c), c)
         ELSE finish(showMessage(s, "Coordenadas invalidas para desenhar marcadores."), c)
    ELSE fetchRouteData(drawRouteMarkers(s, c), c)

\* ------------------------------------------------- summary extraction
\* function tryNumber(v): a finite number or null
tryNumber(v) == IF v.kind = "number" THEN v ELSE Undefined
\* JavaScript truthiness of a field: 0 and a missing value are falsy
Truthy(v) == (v.kind = "number" /\ v.n # 0) \/ v.kind = "text"
\* a || b
OrElse(a, b) == IF Truthy(a) THEN a ELSE b
\* (raw / 1000).toFixed(2) + ' km', in 1/100 km (raw in whole metres, >= 0)
Km(raw) == Shown(" km", (raw + 5) \div 10)
\* Math.round(raw / 60) + ' min' (raw in whole seconds, >= 0)
Min(raw) == Shown(" min", (raw + 30) \div 60)
\* of a text that is not a number: 'NaN km', 'NaN min'
NotANumber(unit) == Shown("NaN" \o unit, 0)

\* let distance = 'N/A'; let duration = 'N/A'; let found = false
Extracted(distance, duration, found) ==
    [ distance |-> distance, duration |-> duration, found |-> found ]
NothingFound == Extracted(NA, NA, FALSE)

\* if (rawDist !== null) { distance = ...; found = true; }
\* if (rawDur !== null) { duration = ...; found = true; }
take(acc, rawDist, rawDur) ==
    Extracted(IF rawDist.kind = "number" THEN Km(rawDist.n) ELSE acc.distance,
              IF rawDur.kind = "number" THEN Min(rawDur.n) ELSE acc.duration,
              acc.found \/ rawDist.kind = "number" \/ rawDur.kind = "number")

\* Array.isArray(geojsonResult.features) && geojsonResult.features.length > 0:
\* the features of an answer are its route, traffic segments and incidents
HasFeatures(resp) == resp.routes + resp.segments + resp.incidents > 0

fromRoutes_skipped(acc, body) == acc

\* routes[0].summary
fromRoutes(acc, body) ==
    IF ~acc.found /\ body.routes.present
    THEN take(acc, tryNumber(body.routes.distance), tryNumber(body.routes.duration))
    ELSE acc

\* features[0].properties.summary (distance || distance_in_meters || distance_m)
fromFeatureSummary(acc, body, resp) ==
    IF ~acc.found /\ HasFeatures(resp) /\ body.summary.present
    THEN take(acc, tryNumber(OrElse(body.summary.distance, Undefined)),
                   tryNumber(OrElse(body.summary.duration, Undefined)))
    ELSE acc

\* features[0].properties.segments[0] (seg.distance || seg.summary && ...)
fromSegment(acc, body, resp) ==
    IF ~acc.found /\ HasFeatures(resp) /\ body.segment.present
    THEN take(acc, tryNumber(OrElse(body.segment.distance, Undefined)),
                   tryNumber(OrElse(body.segment.duration, Undefined)))
    ELSE acc

\* The objects of the answer in the order walk visits them.
WalkOrder(body, resp) ==
    << body.routes >>
    \o (IF HasFeatures(resp) THEN << body.props, body.summary, body.segment >>
        ELSE << >>)
    \o << body.extra >>

\* walk(obj): the first object with a truthy distance and a truthy duration
RECURSIVE walk(_)
walk(slots) ==
    IF slots = << >> THEN NoSlot
    ELSE IF Head(slots).present /\ Truthy(Head(slots).distance)
                               /\ Truthy(Head(slots).duration)
    THEN Head(slots)
    ELSE walk(Tail(slots))

takeWalked(acc, r) ==
    IF r.present THEN take(acc, tryNumber(r.distance), tryNumber(r.duration)) ELSE acc

\* if (!found) { const r = walk(geojsonResult); ... }
fromWalk(acc, body, resp) ==
    IF acc.found THEN acc ELSE takeWalked(acc, walk(WalkOrder(body, resp)))

\* What a truthy property of the main route is turned into by drawRouteOnMap.
mapText(v, unit, shown) ==
    IF ~Truthy(v) THEN Blank ELSE IF v.kind = "number" THEN shown ELSE NotANumber(unit)

\* map_utils.js drawRouteOnMap's result: props.distance || props.summary?.distance
\* and props.duration || props.summary?.duration of the route it drew
\* (Blank: null).
mapExtractOf(dist, dur) ==
    [ distance |-> mapText(dist, " km", Km(dist.n)),
      duration |-> mapText(dur, " min", Min(dur.n)) ]
NoExtract == [ distance |-> Blank, duration |-> Blank ]
mapExtract(s, body, resp) ==
    IF s.mapReady /\ resp.routes > 0
    THEN mapExtractOf(OrElse(body.props.distance, body.summary.distance),
                      OrElse(body.props.duration, body.summary.duration))
    ELSE NoExtract

\* if ((!found || ...) && mapExtract) { if (!found && mapExtract.distance) ... }
fromMap(acc, m) ==
    IF acc.found THEN acc
    ELSE Extracted(IF m.distance # Blank THEN m.distance ELSE acc.distance,
                   IF m.duration # Blank THEN m.duration ELSE acc.duration,
                   FALSE)

\* fetchRouteData, '2. Extrair informacoes da rota'
extractSummary(s, body, resp) ==
    fromMap(fromWalk(fromSegment(fromFeatureSummary(fromRoutes(NothingFound, body),
                                                    body, resp),
                                 body, resp),
                     body, resp),
            mapExtract(s, body, resp))

\* updateRouteInfo(distance, duration)
updateRouteInfoOf(s, x) ==
    [ s EXCEPT !.routeInfo = [ distance |-> x.distance, duration |-> x.duration ] ]
updateRouteInfo(s, body, resp) == updateRouteInfoOf(s, extractSummary(s, body, resp))

\* the rest of fetchRouteData, for an answer whose JSON is body
\* o and d are the ends of the line drawRouteOnMap reads from the answer.
routeAnswered(s, c, resp, body, o, d) ==
    LET s1 == [ s EXCEPT !.answered = [ c |-> c, kind |-> resp.kind,
                                         routes |-> resp.routes,
                                         segments |-> resp.segments,
                                         incidents |-> resp.incidents,
                                         fc |-> resp.fc,
                                         cleared |-> s.comps[c].cleared ],
                         !.routeBody = body ]
    IN IF resp.kind = "network"
       THEN finish(showMessage(s1, "Erro de conexao ao calcular a rota."), c)
       ELSE IF resp.kind = "unauthorized"
       THEN finish(sessionExpired(
                       showMessage(s1, "Acesso negado ao servico de rotas (ORS).")), c)
       ELSE IF resp.kind = "http"
       THEN finish(showMessage(s1, "Erro ao calcular a rota."), c)
       ELSE finish(showMessage(
                     updateRouteInfo(drawRouteOnMap(s1, c, o, d, resp), body, resp),
                     "Rota calculada!"), c)

\* The route of the answer runs from the requested origin to the requested
\* destination.
routeSettled(s, c, resp, body) ==
    routeAnswered(s, c, resp, body, s.comps[c].origin, s.comps[c].destination)

\* drawRouteOnMap(geojsonResult) for the feature collection fc, run by
\* computation c: mainRoute = routeFeatures[0] gives the line.
drawGeoJson(s, c, fc, body) ==
    LET rf == routeFeatures(fc)
        resp == [ kind |-> "ok", routes |-> Len(rf),
                  segments |-> Len(trafficSegments(fc)),
                  incidents |-> Len(incidentsIn(fc)), fc |-> fc ]
    IN IF rf = << >>
       THEN routeAnswered(s, c, resp, body, NoPos, NoPos)
       ELSE routeAnswered(s, c, resp, body, rf[1].from, rf[1].to)

\* the rest of fetchRouteData, for an answer that carries no summary
routeResponse(s, c, resp) == routeSettled(s, c, resp, NoBody)

\* calculateAndDrawRoute(origin, destination) up to its first await
calculateAndDrawRoute(s, origin, destination) ==
    LET c == Len(s.comps) + 1
        s1 == showMessage(clearRoute(s), "Calculando rota por coordenadas...")
        s2 == setDestinationCoords(setOriginCoords(s1, origin), destination)
    IN spawn(s2, [ Computation("coordinates", "", "") EXCEPT
                     !.pc = "waitForMapReady",
                     !.origin = origin, !.destination = destination ])

\* events.js, the clear button: clearRoute(); stopWatching(); showMessage(...)
clearButton(s) == showMessage(stopWatching(clearRoute(s)), "Rota e GPS limpos.")

endValueOf_untrimmed(text) == text

\* const endValue = inputEnd.value.trim()
endValueOf(text) == trim(text)

\* events.js, the route button: what the start and end fields hold.
routeButton(s, startText, endText) ==
    LET startValue == trim(startText)
        endValue == endValueOf(endText)
    IN IF endValue = ""
       THEN showMessage(s, "Por favor, insira um endereco de DESTINO.")
       ELSE IF SameIgnoringCase(startValue, "gps") \/ startValue = ""
       THEN IF s.currentPos # NoPos
            THEN calculateRouteFromAddresses(s, "GPS", endValue)
            ELSE showMessage(s, "Origem GPS nao disponivel.")
       ELSE calculateRouteFromAddresses(s, startValue, endValue)

\* events.js, the locate button: with a stored position it only recentres,
\* else it starts tracking with forced centring.
locateButton(s) ==
    IF s.currentPos # NoPos
    THEN showMessage(centerMapOnCurrentPos(s), "Mapa centralizado na sua localizacao.")
    ELSE getCurrentOnceAndStartWatch(showMessage(s, "Iniciando rastreamento GPS..."),
                                     TRUE)

\* events.js, mapClickHandler(event) for a click at lonLat: the first click of
\* a pair is kept as the origin, the second starts window.drawRoute.
mapClickHandler(s, lonLat) ==
    IF s.originCoord = NoPos
    THEN showMessage([ s EXCEPT !.originCoord = lonLat, !.clickRole = "origin" ],
                     "Origem por clique")
    ELSE LET s1 == showMessage([ s EXCEPT !.destinationCoord = lonLat,
                                          !.clickRole = "destination" ],
                               "Destino por clique. Processando...")
             s2 == calculateAndDrawRoute(clearRoute(s1), s.originCoord, lonLat)
         IN [ s2 EXCEPT !.comps[Len(s2.comps)].kind = "click" ]

\* The map fires a click.  The handler is registered by the mapReady listener
\* of events.js, which first reads btnGenerateRoute: where that name does not
\* resolve the listener ends in a ReferenceError before map.on('click', ...).
mapClick(s, lonLat, registered) ==
    LET s1 == [ s EXCEPT !.clicks = @ + 1 ]
    IN IF registered THEN mapClickHandler(s1, lonLat) ELSE s1

\* ------------------------------------------------------- route actions
\* The page when the user turns to routing: either nothing has happened yet,
\* or the locate button has started tracking and the first fix has arrived.
Fresh ==
    [ watches |-> {}, nextWatchId |-> 1, pendingOnce |-> {},
      mapReady |-> FALSE, features |-> << >>, nextFeatureId |-> 1,
      center |-> InitialCenter, zoom |-> InitialZoom,
      watchId |-> Null, following |-> FALSE,
      currentPos |-> NoPos, currentAccuracy |-> NoAccuracy,
      markerFeature |-> Null, accuracyFeature |-> Null,
      hasInitialFix |-> FALSE, status |-> Status("", NoAccuracy, FALSE), calls |-> 0,
      apiBaseUrl |-> FALSE, rotatual |-> Null,
      originMarker |-> Null, destinationMarker |-> Null,
      trafficFeatures |-> << >>, incidentFeatures |-> << >>,
      originCoords |-> NoPos, destinationCoords |-> NoPos,
      message |-> "", raised |-> FALSE, comps |-> << >>,
      requested |-> {}, answered |-> NoAnswer, overlapped |-> FALSE,
      timers |-> 0, routeInfo |-> NoInfo, routeBody |-> NoBody,
      markerListeners |-> 0, originCoord |-> NoPos, destinationCoord |-> NoPos,
      clicks |-> 0, clickRole |-> "none" ]

FirstFixAt == << -4600, -2300 >>

RouteStarts ==
    { [ Fresh EXCEPT !.apiBaseUrl = u ] : u \in BOOLEAN }
    \cup { handlePosition(
              startWatching([ Fresh EXCEPT !.mapReady = TRUE, !.apiBaseUrl = TRUE ], TRUE),
              FirstFixAt, acc, TRUE) : acc \in Accuracies }

RoutePage ==
    /\ SheetInitial
    /\ hasGeolocation = TRUE
    /\ hasFontFaceSetLoadEvent = FALSE
    /\ \E g \in RouteStarts :
         /\ watches = g.watches /\ nextWatchId = g.nextWatchId
         /\ pendingOnce = g.pendingOnce
         /\ mapReady = g.mapReady /\ features = g.features
         /\ nextFeatureId = g.nextFeatureId
         /\ center = g.center /\ zoom = g.zoom
         /\ watchId = g.watchId /\ following = g.following
         /\ currentPos = g.currentPos /\ currentAccuracy = g.currentAccuracy
         /\ markerFeature = g.markerFeature /\ accuracyFeature = g.accuracyFeature
         /\ hasInitialFix = g.hasInitialFix /\ status = g.status
         /\ apiBaseUrl = g.apiBaseUrl /\ rotatual = g.rotatual
         /\ originMarker = g.originMarker /\ destinationMarker = g.destinationMarker
         /\ trafficFeatures = g.trafficFeatures /\ incidentFeatures = g.incidentFeatures
         /\ originCoords = g.originCoords /\ destinationCoords = g.destinationCoords
         /\ message = g.message /\ raised = g.raised /\ comps = g.comps
         /\ requested = g.requested /\ answered = g.answered
         /\ overlapped = g.overlapped
         /\ timers = g.timers /\ routeInfo = g.routeInfo
         /\ markerListeners = g.markerListeners
         /\ originCoord = g.originCoord /\ destinationCoord = g.destinationCoord
         /\ clicks = g.clicks /\ clickRole = g.clickRole
         /\ awaitingFirst = FALSE
         /\ acceptedSinceStop = (g.currentPos # NoPos)
         /\ stoppedBefore = FALSE
         /\ markerCreations = (IF g.markerFeature # Null THEN 1 ELSE 0)
         /\ sessionCreations = (IF g.markerFeature # Null THEN 1 ELSE 0)
         /\ sessionAccepted = (IF g.currentPos # NoPos THEN 1 ELSE 0)
    /\ calls = 0
    /\ delivered = NoReading
    /\ LegacyInitial
    /\ HostLoggedIn

RouteInit == uiNamesDeclared = TRUE /\ RoutePage

\* A step of the route code: the tracker's observation variables stay.
RouteStep(next) ==
    \E t \in { next } : Commit(t) /\ UNCHANGED envVars /\ UNCHANGED histVars

\* The route button, past the checks of its click handler.
CalculateRouteFromAddresses ==
    \E originInput \in OriginInputs, destinationInput \in DestinationInputs :
        /\ Len(comps) < MaxComputations
        /\ RouteStep(calculateRouteFromAddresses(Cur, originInput, destinationInput))

\* window.drawRoute(origin, destination): the entry point for coordinates.
CalculateAndDrawRoute ==
    \E pair \in ClickPairs :
        /\ Len(comps) < MaxComputations
        /\ RouteStep(calculateAndDrawRoute(Cur, pair[1], pair[2]))

\* The geocoding endpoint answers computation c.
GeocodeResponse ==
    \E c \in DOMAIN comps, outcome \in GeocodeOutcomes :
        /\ comps[c].pc \in { "geocodeOrigin", "geocodeDestination" }
        /\ RouteStep(geocodeResponse(Cur, c, outcome))

\* waitForMapReady() resolves for computation c.
MapReadyResume ==
    \E c \in DOMAIN comps :
        /\ comps[c].pc = "waitForMapReady"
        /\ mapReady
        /\ RouteStep(afterMapReady(Cur, c))

\* The routing endpoint answers computation c.
RouteResponse ==
    \E c \in DOMAIN comps, resp \in RouteResponses :
        /\ comps[c].pc = "fetchRouteData"
        /\ RouteStep(routeResponse(Cur, c, resp))

\* The clear button.  Computations whose routing request is in flight are
\* marked as cleared.
markCleared(s) ==
    [ s EXCEPT !.comps = [ c \in DOMAIN s.comps |->
                             IF s.comps[c].pc = "fetchRouteData"
                             THEN [ s.comps[c] EXCEPT !.cleared = TRUE ]
                             ELSE s.comps[c] ] ]

ClearButton ==
    \E t \in { markCleared(clearButton(Cur)) } : Step("stopWatching", NoReading, t)

RouteNext ==
    \/ RenderComplete
    \/ CalculateRouteFromAddresses
    \/ CalculateAndDrawRoute
    \/ GeocodeResponse
    \/ MapReadyResume
    \/ RouteResponse
    \/ ClearButton

RouteSpec == RouteInit /\ [][RouteNext]_vars

\* ----------------------------------------------------- the route form
\* Route requests accepted from the form in one run.
MaxRequests == 1

\* What the start and end fields may hold when the route button is clicked.
StartTexts == { "", "gps", "Rua Augusta, 100", "-23.5, -46.6" }
EndTexts == { "", " ", "Praca da Se", "-46.7,-23.6" }

NoToken == ""
\* The map frame exists while the host shows the dashboard.
FramePresent == token # NoToken

RouteButton ==
    \E startText \in StartTexts, endText \in EndTexts :
      \E t \in { routeButton(Cur, startText, endText) } :
        /\ FramePresent
        /\ Len(t.comps) <= MaxRequests
        /\ RouteStep(t)

\* The geocoding endpoint answers computation c with status 401.
GeocodeUnauthorized ==
    \E c \in DOMAIN comps :
        /\ FramePresent
        /\ comps[c].pc \in { "geocodeOrigin", "geocodeDestination" }
        /\ RouteStep(geocodeResponse(Cur, c, "unauthorized"))

\* The routing endpoint answers computation c with status 401 or 403 and a
\* JSON error body.
RouteUnauthorized ==
    \E c \in DOMAIN comps :
        /\ FramePresent
        /\ comps[c].pc = "fetchRouteData"
        /\ RouteStep(routeResponse(Cur, c, Response("unauthorized", 0, 0, 0)))

\* A two-second timer of the map page fires:
\* window.parent.postMessage({ type: 'SESSION_EXPIRED' }, '*')
SessionTimer ==
    /\ FramePresent
    /\ timers > 0
    /\ timers' = timers - 1
    /\ posted' = posted + 1
    /\ requested' = {} /\ answered' = NoAnswer
    /\ UNCHANGED << envVars, progVars, histVars, legacyVars, routeBody, clickVars, sheetVars,
                    apiBaseUrl, rotatual, originMarker, destinationMarker,
                    trafficFeatures, incidentFeatures, originCoords, destinationCoords,
                    message, raised, comps, overlapped, routeInfo,
                    token, localStorageToken, username, password, error, loading,
                    loginRequests, loginSent >>

\* App.js handleLogout: localStorage.removeItem('token'); setToken(null)
handleLogout ==
    /\ localStorageToken' = NoToken
    /\ token' = NoToken

\* App.js handleMessage for a SESSION_EXPIRED message: alert, handleLogout.
\* Without a token the App renders the login screen instead of the map frame.
HostMessage ==
    /\ posted > 0
    /\ posted' = posted - 1
    /\ handleLogout
    /\ requested' = {} /\ answered' = NoAnswer
    /\ UNCHANGED << envVars, progVars, histVars, legacyVars, routeBody, clickVars, sheetVars,
                    apiBaseUrl, rotatual, originMarker, destinationMarker,
                    trafficFeatures, incidentFeatures, originCoords, destinationCoords,
                    message, raised, comps, overlapped, routeInfo, timers,
                    username, password, error, loading, loginRequests, loginSent >>

\* The map page lives in the frame: its handlers run while the frame exists.
FormNext ==
    \/ FramePresent /\ RenderComplete
    \/ RouteButton
    \/ FramePresent /\ GeocodeResponse
    \/ GeocodeUnauthorized
    \/ FramePresent /\ MapReadyResume
    \/ FramePresent /\ RouteResponse
    \/ RouteUnauthorized
    \/ SessionTimer
    \/ HostMessage

FormSpec == RouteInit /\ [][FormNext]_vars

\* ------------------------------------------------------- the login form
\* Login requests sent in one run.
MaxLogins == 2

\* The state of App and of its Login component as one value.
HCur ==
    [ token |-> token, localStorageToken |-> localStorageToken,
      username |-> username, password |-> password, error |-> error,
      loading |-> loading, loginRequests |-> loginRequests, loginSent |-> loginSent ]
HCommit(t) ==
    /\ token' = t.token /\ localStorageToken' = t.localStorageToken
    /\ username' = t.username /\ password' = t.password /\ error' = t.error
    /\ loading' = t.loading /\ loginRequests' = t.loginRequests
    /\ loginSent' = t.loginSent
    /\ UNCHANGED << envVars, progVars, routeVars, histVars, legacyVars, routeBody, clickVars, sheetVars,
                    posted >>
HostStep(next) == \E t \in { next } : HCommit(t)

\* validateForm: the error it sets, '' when the form is valid
validationError(h) ==
    IF Len(h.username) < 3 THEN "O usuario deve ter pelo menos 3 caracteres."
    ELSE IF Len(h.password) < 8 THEN "A senha deve ter pelo menos 8 caracteres."
    ELSE ""

validateForm_always(h) == TRUE

validateForm(h) == validationError(h) = ""

\* body: JSON.stringify({ username: username.trim(), password })
LoginRequest(h) == [ username |-> trim(h.username), password |-> h.password ]

\* handleLogin up to its await
handleLogin(h) ==
    IF ~validateForm([ h EXCEPT !.error = "" ])
    THEN [ h EXCEPT !.error = validationError(h) ]
    ELSE [ h EXCEPT !.error = "", !.loading = TRUE,
                    !.loginRequests = Append(@, LoginRequest(h)),
                    !.loginSent = @ + 1 ]

\* The Login component leaves the screen; a later one starts from useState('').
unmountLogin(h) ==
    [ h EXCEPT !.username = "", !.password = "", !.error = "", !.loading = FALSE ]

storeToken_dropped(h, accessToken) == h

\* localStorage.setItem('token', data.access_token); setToken(data.access_token)
storeToken(h, accessToken) ==
    unmountLogin([ h EXCEPT !.localStorageToken = accessToken, !.token = accessToken ])

\* What the server's answer to a login may be: ok with an access token, a
\* refusal with or without an 'erro' field, a body that is not JSON, or no
\* answer at all.
AccessToken == "fake-token-123"
LoginOutcomes == { "ok", "refusedWithErro", "refused", "notJson", "network" }

\* the rest of handleLogin
loginSettled(h, outcome) ==
    LET h1 == [ h EXCEPT !.loginRequests = Tail(@), !.loading = FALSE ]
    IN IF outcome = "ok" THEN storeToken(h1, AccessToken)
       ELSE IF outcome = "refusedWithErro"
       THEN [ h1 EXCEPT !.error = "Credenciais invalidas" ]
       ELSE IF outcome = "refused"
       THEN [ h1 EXCEPT !.error = "Falha na autenticacao." ]
       ELSE [ h1 EXCEPT !.error = "Nao foi possivel conectar ao servidor Flask." ]

Usernames == { "ab", " a ", "abc", "testuser" }
Passwords == { "1234567", "12345678", "password123" }

\* The login screen is shown while the App has no token.
LoginShown == token = NoToken

\* onChange of the username field
TypeUsername ==
    /\ LoginShown
    /\ \E text \in Usernames : HostStep([ HCur EXCEPT !.username = text ])

\* onChange of the password field
TypePassword ==
    /\ LoginShown
    /\ \E text \in Passwords : HostStep([ HCur EXCEPT !.password = text ])

\* The form is submitted: both fields are 'required' and the submit button is
\* disabled while a request is in flight.
SubmitLogin ==
    /\ LoginShown /\ ~loading
    /\ username # "" /\ password # ""
    /\ \E t \in { handleLogin(HCur) } :
         /\ t.loginSent <= MaxLogins
         /\ HostStep(t)

\* The login request is answered.
LoginAnswered ==
    /\ loginRequests # << >>
    /\ \E outcome \in LoginOutcomes : HostStep(loginSettled(HCur, outcome))

\* The 'Sair' button of the dashboard: onClick={handleLogout}
LogoutButton ==
    /\ ~LoginShown
    /\ handleLogout
    /\ UNCHANGED << envVars, progVars, routeVars, histVars, legacyVars, routeBody, clickVars, sheetVars,
                    posted, username, password, error, loading, loginRequests,
                    loginSent >>

LoginNext ==
    \/ LogoutButton
    \/ TypeUsername
    \/ TypePassword
    \/ SubmitLogin
    \/ LoginAnswered

LoginSpec == RouteInit /\ [][LoginNext]_vars

\* ------------------------------------------- summaries in routing answers
\* What an object of the answer may hold: nothing, both numbers, only the
\* distance, two texts that are not numbers, a distance of 0 with a duration.
SlotShapes(metres, seconds) ==
    { NoSlot,
      Slot(TRUE, Number(metres), Number(seconds)),
      Slot(TRUE, Number(metres), Undefined),
      Slot(TRUE, Text, Text),
      Slot(TRUE, Number(0), Number(seconds)) }
Bodies ==
    { Body(routes, props, summary, segment, extra) :
        routes \in SlotShapes(1200, 660), props \in SlotShapes(5200, 3060),
        summary \in SlotShapes(2200, 1260), segment \in SlotShapes(3200, 1860),
        extra \in SlotShapes(4200, 2460) }
SummaryResponses ==
    { Response("ok", 1, 0, 0), Response("ok", 0, 0, 0), Response("network", 0, 0, 0) }

\* window.drawRoute(origin, destination), once.
DrawRouteOnce ==
    /\ comps = << >>
    /\ \E pair \in ClickPairs :
         RouteStep(calculateAndDrawRoute(Cur, pair[1], pair[2]))

\* The routing endpoint answers with a body.
SummaryResponse ==
    \E c \in DOMAIN comps, resp \in SummaryResponses, body \in Bodies :
        /\ comps[c].pc = "fetchRouteData"
        /\ RouteStep(routeSettled(Cur, c, resp, body))

SummaryNext ==
    \/ RenderComplete
    \/ DrawRouteOnce
    \/ MapReadyResume
    \/ SummaryResponse

SummarySpec == RouteInit /\ [][SummaryNext]_vars

\* ------------------------------------------- tracking beside a route
\* The tracker's callbacks, its stop and the follow button interleave with
\* one route by coordinates, its answer and the clear button.
FrameNext ==
    \/ RenderComplete
    \/ GetCurrentOnceAndStartWatch
    \/ WatchPosition
    \/ StopWatching
    \/ ToggleFollow
    \/ DrawRouteOnce
    \/ MapReadyResume
    \/ RouteResponse
    \/ ClearButton

FrameSpec == RouteInit /\ [][FrameNext]_vars

\* ------------------------------------------- coordinates typed as origin
\* Numbers a user may type, with their value in 1/100 degree.
Numeral(text, value) == [ text |-> text, value |-> value ]
Numerals ==
    { Numeral("0", 0), Numeral("90", 9000), Numeral("-90", -9000),
      Numeral("90.5", 9050), Numeral("91", 9100), Numeral("180", 18000),
      Numeral("-180.5", -18050), Numeral("181", 18100), Numeral("-23.5", -2350),
      Numeral("-46.6", -4660), Numeral("+12.25", 1225), Numeral("999", 99900) }
Separators == { ",", ", ", " , " }
CoordinateTexts == { a.text \o sep \o b.text : a \in Numerals, b \in Numerals,
                                              sep \in Separators }
\* Texts that are not two numbers of at most three integer digits around a comma.
NonCoordinateTexts ==
    { "Rua Augusta, 100", "1234, 5", "12., 5", "23.5", "10,20,30", ".5, 1", "1,2 x",
      "12 13" }

\* The route button, pressed once, with a typed origin and the destination
\* 'Praca da Se'.
RouteButtonTyped ==
    /\ comps = << >>
    /\ \E startText \in CoordinateTexts \cup NonCoordinateTexts :
         \E t \in { routeButton(Cur, startText, "Praca da Se") } :
           RouteStep(t)

ParseNext ==
    \/ RenderComplete
    \/ RouteButtonTyped
    \/ GeocodeResponse

ParseSpec == RouteInit /\ [][ParseNext]_vars

\* The event loop runs due timers and dispatches posted messages.
SessionSpec ==
    RouteInit /\ [][FormNext]_vars /\ WF_vars(SessionTimer) /\ WF_vars(HostMessage)

\* ------------------------------------------------- the A/B markers
\* drawRouteMarkers is exported: besides the computations, which wait for the
\* map first, any module may call it, also before rendercomplete.
\* Direct calls of drawRouteMarkers in one run.
MaxMarkerDraws == 2

DrawRouteMarkers ==
    /\ markerListeners < MaxMarkerDraws
    /\ nextFeatureId <= 4 * MaxMarkerDraws
    /\ RouteStep(drawRouteMarkers(Cur, 0))

MarkerNext ==
    \/ RenderComplete
    \/ DrawRouteMarkers
    \/ DrawRouteOnce
    \/ MapReadyResume
    \/ RouteResponse
    \/ ClearButton

MarkerSpec == RouteInit /\ [][MarkerNext]_vars

\* ------------------------------------------- answers as feature collections
\* Features in one answer of the routing endpoint.
MaxFeatures == 3

\* Where the lines of an answer run: all from A, each to its own end.
EndA == << -4660, -2350 >>
EndB == << -4650, -2360 >>
EndC == << -4640, -2370 >>
EndD == << -4630, -2380 >>

\* A route line of either declared type, a line without a declared type, a
\* point without one, a traffic segment, an incident, and a line of a type
\* drawRouteOnMap does not know.
AnswerFeatures ==
    { GeoFeature("route_reference", "LineString", EndA, EndB),
      GeoFeature("route_basic", "LineString", EndA, EndC),
      GeoFeature("", "LineString", EndA, EndD),
      GeoFeature("", "Point", EndA, EndA),
      GeoFeature("traffic_segment", "LineString", EndA, EndB),
      GeoFeature("traffic_incident", "Point", EndB, EndB),
      GeoFeature("alternative_route", "LineString", EndA, EndB) }

FeatureCollections ==
    UNION { [ 1..n -> AnswerFeatures ] : n \in 0..MaxFeatures }

\* The routing endpoint answers computation c with a feature collection.
GeoJsonResponse ==
    \E c \in DOMAIN comps :
        /\ comps[c].pc = "fetchRouteData"
        /\ \E fc \in FeatureCollections : RouteStep(drawGeoJson(Cur, c, fc, NoBody))

GeoJsonNext ==
    \/ RenderComplete
    \/ DrawRouteOnce
    \/ MapReadyResume
    \/ GeoJsonResponse

GeoJsonSpec == RouteInit /\ [][GeoJsonNext]_vars

\* ------------------------------------------------ the locate button
LocateButton ==
    \E t \in { locateButton(Cur) } :
        /\ t.nextWatchId <= MaxWatches + 1
        /\ Step("start", NoReading, t)

\* The page with its locate, follow and clear buttons, and the map dragged.
LocateNext ==
    \/ RenderComplete
    \/ LocateButton
    \/ WatchPosition
    \/ ToggleFollow
    \/ PointerDrag
    \/ ClearButton

LocateSpec == Init /\ [][LocateNext]_vars

\* ------------------------------------------------- the one-shot start
\* The page from load on, tracking never stopped.  The browser answers every
\* getCurrentPosition request: with a position, or with an error (at the
\* latest when the request's timeout of 12 s expires).
StartupNext ==
    \/ RenderComplete
    \/ InitMapWithCurrentPosition
    \/ OnceSuccess
    \/ OnceError
    \/ GetCurrentOnceAndStartWatch
    \/ WatchPosition
    \/ WatchError
    \/ ToggleFollow
    \/ PointerDrag

StartupSpec ==
    Init /\ [][StartupNext]_vars /\ WF_vars(OnceSuccess \/ OnceError)

\* ------------------------------------------------------ click-to-route
\* Click events of the map in one run.
MaxClicks == 4
\* Where the user clicks, <<lon, lat>> in 1/100 degree.
ClickPoints == { << -4660, -2350 >>, << -4650, -2360 >> }

\* The page as part_002 has it (the names are declared in the load handler)
\* or as events.js has it (they are not).
ClickInit == uiNamesDeclared \in BOOLEAN /\ RoutePage

\* The user clicks the rendered map.
MapClick ==
    \E lonLat \in ClickPoints :
        /\ mapReady
        /\ clicks < MaxClicks
        /\ Len(comps) < MaxComputations
        /\ RouteStep(mapClick(Cur, lonLat, uiNamesDeclared))

ClickNext ==
    \/ RenderComplete
    \/ MapClick
    \/ MapReadyResume
    \/ RouteResponse
    \/ ClearButton

ClickSpec == ClickInit /\ [][ClickNext]_vars

\* ========================================================= bottom_sheet.js
\* How far a drag may have moved the pointer up (startY - y), in px.
DragDistances == { -800, -280, 30, 300, 800 }
\* max-height and aria-hidden of the sheet as stylesheet and markup may set them
\* ("none": the attribute is absent).
StyledHeights == { 0, 70 }
MarkupAria == { "true", "none" }

\* The sheet's variables as one value.
SCur ==
    [ loaded |-> loaded, innerHeight |-> innerHeight, maxHeight |-> sheetMaxHeight,
      ariaHidden |-> ariaHidden, currentSnap |-> currentSnap, dragging |-> dragging,
      startMax |-> startMax, SNAP_MIN |-> SNAP_MIN, SNAP_MID |-> SNAP_MID,
      SNAP_FULL |-> SNAP_FULL, SNAP_CLOSED |-> SNAP_CLOSED ]

SCommit(op, t) ==
    /\ loaded' = t.loaded /\ innerHeight' = t.innerHeight
    /\ sheetMaxHeight' = t.maxHeight /\ ariaHidden' = t.ariaHidden
    /\ currentSnap' = t.currentSnap /\ dragging' = t.dragging /\ startMax' = t.startMax
    /\ SNAP_MIN' = t.SNAP_MIN /\ SNAP_MID' = t.SNAP_MID
    /\ SNAP_FULL' = t.SNAP_FULL /\ SNAP_CLOSED' = t.SNAP_CLOSED
    /\ sheetOp' = op
    /\ UNCHANGED << envVars, progVars, routeVars, histVars, legacyVars, hostVars,
                    routeBody, clickVars >>

SheetStep(op, next) == \E t \in { next } : SCommit(op, t)

Smaller(a, b) == IF a <= b THEN a ELSE b

\* sheet.style.maxHeight = `${Math.round(v)}px`: 'NaNpx' is not a length and
\* leaves the style as it was.
setMaxHeight(s, v) == IF v = Unset THEN s ELSE [ s EXCEPT !.maxHeight = v ]

\* openSheet, the branch of maxHeightValue === SNAP_CLOSED
markClosed(s) == [ s EXCEPT !.currentSnap = "closed", !.ariaHidden = "true" ]

\* function setupBottomSheet(): the snap points, then openSheet(SNAP_CLOSED)
setupBottomSheet(s) ==
    markClosed(setMaxHeight([ s EXCEPT !.SNAP_MIN = 70,
                                       !.SNAP_MID = s.innerHeight \div 2,
                                       !.SNAP_FULL = s.innerHeight,
                                       !.SNAP_CLOSED = 0 ], 0))

\* maxHeightValue === SNAP_FULL ? 'full' : (maxHeightValue === SNAP_MID ? 'mid' : 'min')
snapOf(s, v) ==
    IF v = s.SNAP_FULL THEN "full" ELSE IF v = s.SNAP_MID THEN "mid" ELSE "min"

\* window.openSheet(maxHeightValue)
openSheet(s, v) ==
    LET s1 == setMaxHeight(s, v)
    IN IF v = s1.SNAP_CLOSED
       THEN markClosed(s1)
       ELSE LET s2 == IF s1.SNAP_MID = Unset THEN setupBottomSheet(s1) ELSE s1
            IN [ s2 EXCEPT !.currentSnap = snapOf(s2, v), !.ariaHidden = "false" ]

\* window.updateSheetContent(...): fills the sheet and opens it half way
updateSheetContent(s) == openSheet(s, s.SNAP_MID)

\* the resize listener, for a window now h px high
resize(s, h) ==
    LET s1 == [ s EXCEPT !.innerHeight = h, !.SNAP_MID = h \div 2, !.SNAP_FULL = h ]
        currentHeight == s.maxHeight
    IN IF s1.currentSnap = "mid" /\ Abs(currentHeight - s1.SNAP_MID) > 5
       THEN openSheet(s1, s1.SNAP_MID)
       ELSE IF s1.currentSnap = "full" /\ Abs(currentHeight - s1.SNAP_FULL) > 5
       THEN openSheet(s1, s1.SNAP_FULL)
       ELSE s1

handleStart(s) == [ s EXCEPT !.dragging = TRUE, !.startMax = s.maxHeight ]

\* handleMove for a pointer dy px above where the drag started
handleMove(s, dy) ==
    IF ~s.dragging THEN s
    ELSE LET s1 == IF s.SNAP_FULL = Unset THEN setupBottomSheet(s) ELSE s
         IN [ s1 EXCEPT !.maxHeight = Smaller(s1.SNAP_FULL, Max(0, s.startMax + dy)) ]

\* Math.abs(cur - a) < Math.abs(cur - b); a comparison with NaN is false
Closer(cur, a, b) == a # Unset /\ b # Unset /\ Abs(cur - a) < Abs(cur - b)

\* cur < SNAP_MIN * 0.7
BelowMinimum(cur, min) == min # Unset /\ cur * 10 < min * 7

handleEnd(s) ==
    IF ~s.dragging THEN s
    ELSE LET s1 == [ s EXCEPT !.dragging = FALSE ]
             cur == s.maxHeight
             targetSnap ==
                 IF Closer(cur, s.SNAP_FULL, s.SNAP_MID) /\ Closer(cur, s.SNAP_FULL, s.SNAP_MIN)
                 THEN s.SNAP_FULL
                 ELSE IF Closer(cur, s.SNAP_MID, s.SNAP_MIN) THEN s.SNAP_MID
                 ELSE s.SNAP_MIN
         IN IF BelowMinimum(cur, s.SNAP_MIN)
            THEN openSheet(s1, s.SNAP_CLOSED)
            ELSE openSheet(s1, targetSnap)

\* the toggle button's click listener
toggleClick(s) ==
    IF s.currentSnap = "closed"
    THEN openSheet(s, s.SNAP_MIN)
    ELSE openSheet(s, s.SNAP_CLOSED)

\* ------------------------------------------------------- sheet actions
SheetInit ==
    /\ TrackerPage
    /\ hasGeolocation = TRUE
    /\ hasFontFaceSetLoadEvent = FALSE
    /\ \E height \in StyledHeights, aria \in MarkupAria : SheetLoading(height, aria)

\* window 'load': setupBottomSheet
Load ==
    /\ ~loaded
    /\ SheetStep("load", [ setupBottomSheet(SCur) EXCEPT !.loaded = TRUE ])

Resize ==
    \E h \in WindowHeights :
        /\ h # innerHeight
        /\ SheetStep("resize", resize(SCur, h))

\* mousedown / touchstart on the handle
DragStart == ~dragging /\ SheetStep("dragStart", handleStart(SCur))

\* mousemove / touchmove during a drag
DragMove ==
    \E dy \in DragDistances :
        /\ dragging
        /\ SheetStep("dragMove", handleMove(SCur, dy))

\* mouseup / touchend anywhere in the document
DragEnd == \E t \in { handleEnd(SCur) } : SCommit("dragEnd", t)

ToggleClick == \E t \in { toggleClick(SCur) } : SCommit("toggle", t)

\* The legacy drawRoute shows the summary of a route in the sheet.
UpdateSheetContent == \E t \in { updateSheetContent(SCur) } : SCommit("openSheet", t)

\* The legacy drawRoute shuts the sheet after a failure, once SNAP_CLOSED is
\* defined.
OpenSheetClosed ==
    /\ SNAP_CLOSED # Unset
    /\ SheetStep("openSheet", openSheet(SCur, SNAP_CLOSED))

SheetNext ==
    \/ Load
    \/ Resize
    \/ DragStart
    \/ DragMove
    \/ DragEnd
    \/ ToggleClick
    \/ UpdateSheetContent
    \/ OpenSheetClosed

SheetSpec == SheetInit /\ [][SheetNext]_vars

\* ================================================== legacy route_logic.js
\* window.drawRoute of the legacy script: one global flag, one global route
\* layer.
\* Accepted drawRoute calls in one run.
MaxLegacyCalls == 3

\* What a 2xx answer of /rota holds: a route, a feature collection without
\* features, an error field, a geojson readFeatures throws on.
LegacyBodies == { "route", "empty", "error", "invalid" }
\* How fetch('/rota') ends: a 2xx response, another status, no connection.
LegacyFetchOutcomes == { "ok", "http", "network" }

LCur ==
    [ is_drawing_route |-> is_drawing_route, rotatual |-> legacyRotatual,
      layers |-> layers, nextLayerId |-> nextLayerId, status |-> legacyStatus,
      fit |-> legacyFit, calls |-> legacyCalls, rejected |-> FALSE, sent |-> 0 ]

LCommit(l) ==
    /\ is_drawing_route' = l.is_drawing_route /\ legacyRotatual' = l.rotatual
    /\ layers' = l.layers /\ nextLayerId' = l.nextLayerId
    /\ legacyStatus' = l.status /\ legacyFit' = l.fit
    /\ legacyCalls' = l.calls /\ rejected' = l.rejected /\ sent' = l.sent

\* if (rotatual) { try { map.removeLayer(rotatual) } catch ...; rotatual = null }
remove_route(l) ==
    IF l.rotatual # Null
    THEN [ l EXCEPT !.layers = @ \ { l.rotatual }, !.rotatual = Null ]
    ELSE l

IsDrawing_never(flag) == FALSE

\* if (is_drawing_route) { console.warn(...); return }
IsDrawing(flag) == flag

\* drawRoute up to await fetch('/rota', ...)
drawRoute(l) ==
    IF IsDrawing(l.is_drawing_route)
    THEN [ l EXCEPT !.rejected = TRUE ]
    ELSE [ remove_route([ l EXCEPT !.is_drawing_route = TRUE ]) EXCEPT
             !.calls = Append(@, "fetch"), !.sent = @ + 1 ]

drawRouteFailed_keepsFlag(l, k) ==
    [ l EXCEPT !.status = "Falha ao calcular rota.", !.calls[k] = "done" ]

\* catch (e) { updateStatus('Falha ao calcular rota: ...') } finally { flag = false }
drawRouteFailed(l, k) ==
    [ l EXCEPT !.status = "Falha ao calcular rota.",
               !.is_drawing_route = FALSE, !.calls[k] = "done" ]

\* fetch settles: a rejected fetch is caught; otherwise the body is awaited
\* (the error body of a non-2xx response, the data of a 2xx one).
drawRouteFetched(l, k, outcome) ==
    IF outcome = "network" THEN drawRouteFailed(l, k)
    ELSE IF outcome = "http" THEN [ l EXCEPT !.calls[k] = "errorBody" ]
    ELSE [ l EXCEPT !.calls[k] = "body" ]

\* await resp.json() of a non-2xx response settles: throw new Error(...)
drawRouteErrorBody(l, k) == drawRouteFailed(l, k)

\* await resp.json() of a 2xx response settles
drawRouteBody(l, k, body) ==
    IF body \in { "error", "invalid" } THEN drawRouteFailed(l, k)
    ELSE [ l EXCEPT !.rotatual = l.nextLayerId,
                    !.layers = @ \cup { l.nextLayerId },
                    !.nextLayerId = @ + 1,
                    !.status = "Rota adicionada ao mapa.",
                    !.fit = IF body = "route" THEN l.nextLayerId ELSE @,
                    !.is_drawing_route = FALSE,
                    !.calls[k] = "done" ]

LegacyStep(next) ==
    \E l \in { next } :
        LCommit(l) /\ UNCHANGED << envVars, progVars, routeVars, histVars, hostVars, clickVars, sheetVars,
                                   routeBody >>

DrawRoute ==
    \E l \in { drawRoute(LCur) } :
        /\ Len(l.calls) <= MaxLegacyCalls
        /\ LegacyStep(l)

DrawRouteFetched ==
    \E k \in DOMAIN legacyCalls, outcome \in LegacyFetchOutcomes :
        /\ legacyCalls[k] = "fetch"
        /\ LegacyStep(drawRouteFetched(LCur, k, outcome))

DrawRouteErrorBody ==
    \E k \in DOMAIN legacyCalls :
        /\ legacyCalls[k] = "errorBody"
        /\ LegacyStep(drawRouteErrorBody(LCur, k))

DrawRouteBody ==
    \E k \in DOMAIN legacyCalls, body \in LegacyBodies :
        /\ legacyCalls[k] = "body"
        /\ LegacyStep(drawRouteBody(LCur, k, body))

\* window.remove_route()
RemoveRoute ==
    \E l \in { remove_route(LCur) } : LegacyStep(l)

LegacyNext ==
    \/ DrawRoute
    \/ DrawRouteFetched
    \/ DrawRouteErrorBody
    \/ DrawRouteBody
    \/ RemoveRoute

LegacySpec == Init /\ [][LegacyNext]_vars

\* ================================================================ claims
\* The step is a position callback, from the watch or from the one-shot read,
\* taken with map and vector source initialized; delivered' is its reading.
AcceptedCallback == delivered'.by # "none" /\ mapReady

\* The step recentred the view on the reading.
Recentred ==
    /\ calls' >= 1
    /\ center' = fromLonLat(delivered'.pos)
    /\ zoom' >= MinCenterZoom

\* C1: at most one device-location subscription is live after any step, and
\* a start request (a direct one, or the one issued by a failed one-shot read)
\* made while a watch handle is stored creates no subscription and leaves
\* the handle as it was.
C1_SingleSubscription ==
    [][ /\ Cardinality(watches') <= 1
        /\ \A force \in BOOLEAN :
             (watchId # Null /\ (StartRequest(force) \/ OnceFailure(force)))
                => /\ watches' = watches
                   /\ watchId' = watchId
                   /\ nextWatchId' = nextWatchId ]_vars

\* C1 witness: a start request was rejected while the one subscription lives.
C1_Witness ==
    /\ status.msg = "Rastreamento GPS ja esta ativo."
    /\ watchId # Null
    /\ watches = { [ id |-> watchId, force |-> TRUE ] }

\* C2 as stated: the first callback accepted after a subscription was created
\* recentres on the reading with zoom >= 16 by exactly one setCenter call.
C2_Original ==
    [][ (AcceptedCallback /\ awaitingFirst)
             => (Recentred /\ calls' = 1) ]_vars

\* C2 amended: the first callback accepted since page load or since the last
\* stopWatching of an active watch, whether the watch or the one-shot read
\* delivers it, recentres on the reading with zoom >= 16 by exactly one
\* setCenter call, whatever the accuracy and the follow-mode.
C2_FirstFixRecentres ==
    [][ (AcceptedCallback /\ ~acceptedSinceStop)
             => (Recentred /\ calls' = 1) ]_vars

\* C2 witness: a first fix of accuracy above the threshold, follow-mode off,
\* has recentred the view.
C2_Witness ==
    /\ delivered.by # "none"
    /\ status.msg = "GPS inicial obtido."
    /\ currentAccuracy > GPS_RELIABLE_THRESHOLD
    /\ ~following
    /\ calls = 1
    /\ center = fromLonLat(currentPos)
    /\ zoom >= MinCenterZoom

\* C3: an accepted callback after the first fix recentres only if accuracy is
\* at most 150 and (the marker was just created, or centering was forced, or
\* follow-mode is on); with accuracy above 150 centre and zoom stay as they are.
C3_SteadyStateRule ==
    [][ (AcceptedCallback /\ acceptedSinceStop)
             => /\ (calls' >= 1 \/ center' # center \/ zoom' # zoom)
                     => /\ delivered'.acc <= GPS_RELIABLE_THRESHOLD
                        /\ (markerFeature = Null \/ delivered'.force \/ following)
                /\ delivered'.acc > GPS_RELIABLE_THRESHOLD
                     => (center' = center /\ zoom' = zoom /\ calls' = 0) ]_vars

\* C3 witness: with follow-mode on, a later reading of accuracy above the
\* threshold was accepted and the view was left off the reading.
C3_Witness ==
    /\ delivered.by = "watch"
    /\ status.msg = "GPS ativo, precisao baixa."
    /\ following
    /\ currentAccuracy > GPS_RELIABLE_THRESHOLD
    /\ calls = 0
    /\ center # fromLonLat(currentPos)

\* C4 as stated: after a stop of an active watch and a later start, the next
\* accepted callback recentres on the reading.
C4_Original ==
    [][ (AcceptedCallback /\ stoppedBefore /\ awaitingFirst)
             => Recentred ]_vars

\* C4 amended: after a stop of an active watch and a later start with no
\* callback accepted between the two, the next accepted callback recentres on
\* the reading, whatever its accuracy and the follow-mode.
C4_RestartResetsFirstFix ==
    [][ (AcceptedCallback /\ stoppedBefore /\ awaitingFirst
              /\ ~acceptedSinceStop)
             => Recentred ]_vars

\* C4 witness: in a session that follows a stop (the marker dates from before
\* the stop), the first watch callback, of accuracy above the threshold and
\* with follow-mode off, has recentred the view.
C4_Witness ==
    /\ delivered.by = "watch"
    /\ stoppedBefore
    /\ watchId # Null
    /\ sessionAccepted = 1
    /\ markerCreations = 1 /\ sessionCreations = 0
    /\ status.msg = "GPS inicial obtido."
    /\ currentAccuracy > GPS_RELIABLE_THRESHOLD
    /\ ~following
    /\ calls = 1
    /\ center = fromLonLat(currentPos)

\* C5: stopWatching on an active watch removes the subscription and leaves
\* the handle null, follow-mode off and the first-fix flag reset; stopWatching
\* while Idle changes nothing; a start after a stop subscribes under an id
\* never used before.
C5_StopIsImmediate ==
    [][ /\ (watchId # Null /\ StopWatching)
             => /\ watches' = {}
                /\ watchId' = Null
                /\ ~following'
                /\ ~hasInitialFix'
        /\ (watchId = Null /\ StopWatching) => UNCHANGED progVars
        /\ \A force \in BOOLEAN :
             (stoppedBefore /\ watchId = Null /\ hasGeolocation /\ StartRequest(force))
                => /\ watchId' >= nextWatchId
                   /\ watches' = { [ id |-> watchId', force |-> force ] } ]_vars

\* C5 witness: a session that had its first fix and follow-mode on has just
\* been stopped.
C5_Witness ==
    /\ status.msg = "Rastreamento GPS desativado."
    /\ watchId = Null /\ watches = {}
    /\ ~following /\ ~hasInitialFix
    /\ markerCreations = 1
    /\ currentPos # NoPos

\* C6 as stated: a tracking session that had a callback accepted has created
\* the marker feature exactly once.
C6_Original ==
    (watchId # Null /\ sessionAccepted = 1) => sessionCreations = 1

\* C6 amended: the marker feature is created once, by the first accepted
\* callback, and never again: every later accepted callback, in that session
\* or a later one, moves that same feature to the reading.
C6_MarkerCreatedOnce ==
    /\ markerCreations <= 1
    /\ (markerCreations = 1) <=> (markerFeature # Null)
    /\ (acceptedSinceStop \/ sessionAccepted = 1)
          => /\ markerFeature \in DOMAIN features
             /\ features[markerFeature] = Point(fromLonLat(currentPos))

\* C6 witness: a session after a stop had a callback accepted; the marker of
\* the earlier session was moved, none was created.
C6_Witness ==
    /\ delivered.by = "watch"
    /\ stoppedBefore
    /\ watchId # Null
    /\ sessionAccepted = 1
    /\ sessionCreations = 0
    /\ markerCreations = 1
    /\ features[markerFeature] = Point(fromLonLat(currentPos))

\* C7 as stated: with follow-mode on, every accepted callback recentres on
\* the reading.
C7_Original ==
    [][ (AcceptedCallback /\ following)
             => Recentred ]_vars

\* C7 amended: with follow-mode on, every accepted callback of accuracy at
\* most 150 recentres on the reading.
C7_FollowRecentresReliable ==
    [][ (AcceptedCallback /\ following
              /\ delivered'.acc <= GPS_RELIABLE_THRESHOLD)
             => Recentred ]_vars

\* C7 witness: a reliable reading after the first fix recentred the view
\* while following.
C7_Witness ==
    /\ delivered.by = "watch"
    /\ status = Status("GPS Ativo.", currentAccuracy, TRUE)
    /\ following
    /\ calls = 1
    /\ center = fromLonLat(currentPos)

\* C8: follow-mode goes from off to on only in a toggleFollow step.
C8_FollowOnlyByToggle ==
    [][ (~following /\ following') => ToggleFollow ]_vars

\* C9: a map drag leaves follow-mode off, and leaves the watch handle, the
\* subscription, the stored position and the first-fix flag as they were.
C9_DragOnlyClearsFollow ==
    [][ PointerDrag
          => /\ ~following'
             /\ watchId' = watchId /\ watches' = watches
             /\ currentPos' = currentPos /\ currentAccuracy' = currentAccuracy
             /\ hasInitialFix' = hasInitialFix ]_vars

\* C9 witness: a drag has switched follow-mode off during a session.
C9_Witness ==
    /\ status.msg = "Modo Seguir Desativado (Movimento manual detectado)."
    /\ ~following
    /\ watchId # Null
    /\ hasInitialFix

\* C10: every callback received with the map initialized stores the reported
\* longitude, latitude and accuracy as the current position.
C10_PositionAlwaysStored ==
    [][ (AcceptedCallback)
             => /\ currentPos' = << delivered'.pos[1], delivered'.pos[2] >>
                /\ currentAccuracy' = delivered'.acc ]_vars

\* C10 witness: a reading of accuracy above the threshold that did not
\* recentre the view is the stored position.
C10_Witness ==
    /\ delivered.by # "none"
    /\ currentPos = delivered.pos /\ currentAccuracy = delivered.acc
    /\ status.msg = "GPS ativo, precisao baixa."
    /\ ~following
    /\ currentAccuracy > GPS_RELIABLE_THRESHOLD
    /\ currentPos \in Positions
    /\ calls = 0
    /\ center # fromLonLat(currentPos)

\* C11: a sensor error reported to the live subscription only changes the
\* status line: one text for code 1 (permission denied), another one for any
\* other code.  The watch handle, the subscription, the stored position and
\* accuracy, follow-mode, the first-fix flag, the features and the view are
\* left as they were, and no subscription or one-shot read is requested.
C11_ErrorOnlyReports ==
    [][ \A code \in ErrorCodes :
          (watches # {} /\ Step("watchError", NoReading, handleError(Cur, code)))
             => /\ status'.msg = IF code = 1
                                 THEN "Erro GPS: Permissao negada pelo usuario."
                                 ELSE "Erro GPS: Sinal indisponivel."
                /\ (code # 1 => status'.msg # "Erro GPS: Permissao negada pelo usuario.")
                /\ watchId' = watchId /\ watches' = watches
                /\ nextWatchId' = nextWatchId /\ pendingOnce' = pendingOnce
                /\ currentPos' = currentPos /\ currentAccuracy' = currentAccuracy
                /\ following' = following /\ hasInitialFix' = hasInitialFix
                /\ features' = features /\ markerFeature' = markerFeature
                /\ accuracyFeature' = accuracyFeature
                /\ center' = center /\ zoom' = zoom /\ calls' = 0 ]_vars

\* An error was reported while tracking with a stored fix, and tracking is
\* still active.
C11_Witness ==
    /\ status.msg = "Erro GPS: Permissao negada pelo usuario."
    /\ watchId # Null /\ watches # {}
    /\ currentPos # NoPos /\ hasInitialFix

\* ------------------------------------------------------- route overlay
OverlayTypes == { "LineString", "Traffic", "Incident", "Origem", "Destino" }
OfType(fs, types) == { f \in DOMAIN fs : fs[f].type \in types }
AllDone == \A c \in DOMAIN comps : comps[c].pc = "done"

\* What is on the map and in the store belongs together: the markers stand
\* at the stored coordinates, the route line runs from the origin marker to
\* the destination marker, and traffic segments and incidents were drawn
\* with the route line.
OneComputationVisible ==
    /\ (originMarker = Null) = (destinationMarker = Null)
    /\ originMarker # Null =>
          /\ originCoords # NoPos /\ destinationCoords # NoPos
          /\ features[originMarker].coord = fromLonLat(originCoords)
          /\ features[destinationMarker].coord = fromLonLat(destinationCoords)
    /\ rotatual # Null =>
          /\ originMarker # Null /\ destinationMarker # Null
          /\ features[rotatual].coord =
                features[originMarker].coord \o features[destinationMarker].coord
    /\ \A f \in Range(trafficFeatures) \cup Range(incidentFeatures) :
          rotatual # Null /\ features[f].of = features[rotatual].of

\* C12: when a route computation was started while another one was still
\* awaiting geocoding, the map or routing, then once all computations have
\* finished the markers, the route line, the traffic segments, the incidents
\* and the stored coordinates come from one and the same computation.
C12_OneComputationWins ==
    (overlapped /\ AllDone /\ Len(comps) >= 2) => OneComputationVisible

\* C13: a routing response that arrives after the clear button was pressed
\* while its request was in flight draws nothing: no route line, no traffic
\* segment, no incident.
C13_ClearedResponseDiscarded ==
    (answered.kind = "ok" /\ answered.cleared)
       => /\ rotatual = Null
          /\ trafficFeatures = << >> /\ incidentFeatures = << >>
          /\ OfType(features, { "LineString", "Traffic", "Incident" }) = {}

\* C15: the vector source holds at most one route line, and the route line,
\* the traffic segments and the incidents in it are exactly the features
\* tracked as rotatual, trafficFeatures and incidentFeatures (which the next
\* clear or draw removes); no removal ever raised.
C15_OneOverlayTracked ==
    /\ Cardinality(OfType(features, { "LineString" })) <= 1
    /\ OfType(features, { "LineString" }) = { rotatual } \ { Null }
    /\ OfType(features, { "Traffic" }) = Range(trafficFeatures)
    /\ OfType(features, { "Incident" }) = Range(incidentFeatures)
    /\ Len(trafficFeatures) = Cardinality(Range(trafficFeatures))
    /\ Len(incidentFeatures) = Cardinality(Range(incidentFeatures))
    /\ ~raised

\* Two computations overlapped, both responses were drawn, and the overlay
\* of the later one (with traffic) is on the map.
C15_Witness ==
    /\ overlapped /\ AllDone /\ Len(comps) = 2
    /\ rotatual # Null /\ features[rotatual].of = answered.c
    /\ Len(trafficFeatures) = 2 /\ Len(incidentFeatures) = 1
    /\ \E f \in { originMarker, destinationMarker } \ { Null } :
          features[f].of # answered.c

\* C16: right after drawRouteOnMap has drawn a response, the traffic
\* segments and incidents on the map are exactly the ones of that response:
\* as many as it contains, all drawn by this call, none left from an earlier
\* response.
C16_OnlyLatestResponse ==
    answered.kind = "ok"
       => /\ Len(trafficFeatures) = answered.segments
          /\ Len(incidentFeatures) = answered.incidents
          /\ Cardinality(OfType(features, { "Traffic" })) = answered.segments
          /\ Cardinality(OfType(features, { "Incident" })) = answered.incidents
          /\ Cardinality(OfType(features, { "LineString" })) = answered.routes
          /\ \A f \in OfType(features, { "LineString", "Traffic", "Incident" }) :
                features[f].of = answered.c

\* With no tracker features on the map, two computations have created nine
\* features in all: four markers, a first response with a route line, two
\* traffic segments and an incident, and then this response with a route
\* line only.
C16_Witness ==
    /\ answered.kind = "ok" /\ answered.routes = 1 /\ answered.segments = 0
    /\ markerFeature = Null /\ Len(comps) = 2
    /\ nextFeatureId = 10

\* C17: when the routing request of a computation fails (no connection, or
\* a non-2xx status), nothing that computation added is left on the map.
C17_AbortLeavesNothing ==
    answered.kind \in { "http", "network" }
       => \A f \in OfType(features, OverlayTypes) : features[f].of # answered.c

\* The step is the clear button's handler.
ClearButtonStep == message' = "Rota e GPS limpos." /\ ClearButton

\* C18: after clearRoute (here: the clear button) the route line, both
\* markers, the traffic segments and the incidents are gone from the map
\* and the stored origin and destination coordinates are null, whatever
\* the state it is called in.
C18_ClearRemovesAll ==
    [][ ClearButtonStep
          => /\ rotatual' = Null
             /\ originMarker' = Null /\ destinationMarker' = Null
             /\ trafficFeatures' = << >> /\ incidentFeatures' = << >>
             /\ OfType(features', OverlayTypes) = {}
             /\ originCoords' = NoPos /\ destinationCoords' = NoPos ]_vars

\* C19: in every state, also with nothing drawn and right after a clear,
\* clearRoute raises nothing and a second clearRoute changes nothing of
\* what the first one left.
C19_ClearIdempotent ==
    \E t \in { clearRoute(Cur) } :
        /\ ~t.raised
        /\ clearRoute(t) = t

\* The clear button was pressed after markers had been drawn, and nothing is
\* on the map.
C19_Witness ==
    /\ message = "Rota e GPS limpos."
    /\ nextFeatureId >= 3 /\ markerFeature = Null
    /\ DOMAIN features = {}
    /\ originCoords = NoPos

\* The step starts calculateRouteFromAddresses with origin 'GPS' while a
\* position is stored.
GpsRouteRequest ==
    /\ Len(comps') = Len(comps) + 1
    /\ currentPos # NoPos
    /\ \E d \in DestinationInputs :
         RouteStep(calculateRouteFromAddresses(Cur, "GPS", d))

\* C20: a route request with origin 'GPS' and a stored accuracy above 150 m
\* is rejected with an error message, sends no request and stores no
\* coordinates; with a stored accuracy of at most 150 m the stored position
\* becomes the origin and the only request sent is the geocoding of the
\* destination.
C20_GpsOriginGate ==
    [][ GpsRouteRequest
          => IF currentAccuracy > 150
             THEN /\ message' = "Posicao GPS disponivel, mas imprecisa."
                  /\ requested' = {}
                  /\ comps'[Len(comps')].pc = "done"
                  /\ originCoords' = NoPos /\ destinationCoords' = NoPos
             ELSE /\ comps'[Len(comps')].origin = currentPos
                  /\ comps'[Len(comps')].pc = "geocodeDestination"
                  /\ requested' = { "geocodeDestination" } ]_vars

\* A request with origin 'GPS' went through at exactly 150 m.
C20_Witness ==
    /\ currentAccuracy = 150
    /\ \E c \in DOMAIN comps :
         /\ comps[c].originInput = "GPS" /\ comps[c].pc = "geocodeDestination"
         /\ comps[c].origin = currentPos

\* ------------------------------------------------------ legacy drawRoute
InFlight(cs) == { k \in DOMAIN cs : cs[k] # "done" }

\* C14: a legacy drawRoute call made while another call is in flight is
\* rejected: it removes no route, sends no request and adds no layer.  A call
\* is accepted only when none is in flight, so at most one request is in
\* flight and at most one route layer is on the map.
C14_LegacySerialized ==
    [][ /\ rejected' => /\ InFlight(legacyCalls) # {}
                        /\ UNCHANGED << legacyRotatual, layers, legacyCalls, nextLayerId >>
                        /\ sent' = 0
        /\ Len(legacyCalls') > Len(legacyCalls) => InFlight(legacyCalls) = {}
        /\ Cardinality(InFlight(legacyCalls')) <= 1
        /\ Cardinality(layers') <= 1
        /\ layers' = { legacyRotatual' } \ { Null } ]_vars

\* A call was rejected while the second accepted call, made after a route
\* had been drawn, is in flight.
C14_Witness ==
    /\ rejected
    /\ Len(legacyCalls) = 2 /\ InFlight(legacyCalls) = { 2 }
    /\ nextLayerId = 2

\* --------------------------------------------- callbacks before map ready
\* C28: a position callback (of the subscription or of the one-shot request)
\* that arrives before rendercomplete has stored the map and the vector
\* source only sets the status line to the internal-error text: stored
\* position, accuracy, marker, accuracy circle, the features on the map, the
\* first-fix flag and the view stay as they were, and the view is not moved.
C28_RejectedBeforeMapReady ==
    [][ (delivered'.by # "none" /\ ~mapReady)
          => /\ status' = Status("Erro interno: Mapa nao inicializado para GPS.",
                                 NoAccuracy, FALSE)
             /\ calls' = 0
             /\ UNCHANGED << currentPos, currentAccuracy, markerFeature, accuracyFeature,
                             features, nextFeatureId, hasInitialFix, center, zoom >> ]_vars

\* A reading was delivered to a live subscription before the map was ready.
C28_Witness ==
    /\ delivered.by = "watch" /\ ~mapReady
    /\ status.msg = "Erro interno: Mapa nao inicializado para GPS."
    /\ currentPos = NoPos /\ ~hasInitialFix

\* ----------------------------------------------------------- route form
\* The step is the route button's handler with an empty or blank end field.
EmptyDestinationRequest ==
    \E st \in StartTexts, et \in EndTexts :
        /\ trim(et) = ""
        /\ RouteStep(routeButton(Cur, st, et))

\* C21: the route button with an empty or whitespace-only destination shows
\* the destination-missing error, starts no computation, sends no geocoding
\* or routing request, and leaves the features on the map, the overlay
\* bookkeeping, the stored coordinates and the shown summary as they were.
C21_EmptyDestinationRejected ==
    [][ EmptyDestinationRequest
          => /\ message' = "Por favor, insira um endereco de DESTINO."
             /\ requested' = {}
             /\ UNCHANGED << comps, features, nextFeatureId, rotatual, originMarker,
                             destinationMarker, trafficFeatures, incidentFeatures,
                             originCoords, destinationCoords, routeInfo, timers >> ]_vars

\* The request was rejected while a route with its markers was on the map.
C21_Witness ==
    /\ message = "Por favor, insira um endereco de DESTINO."
    /\ rotatual # Null /\ originMarker # Null
    /\ originCoords # NoPos

GeocodeFailures == { "notFound", "network", "unauthorized" }
GeocodeErrorMessages ==
    { "Erro de geocodificacao.", "Erro de conexao ao geocodificar o endereco.",
      "Sessao expirada. Faca login novamente." }

\* C22: when the geocoding of the origin or of the destination fails (no
\* connection, a non-OK answer or one without coordinates, a 401), that step
\* ends the computation with an error message: it sends no request, stores no
\* coordinates and draws nothing.
C22_GeocodeFailureAborts ==
    [][ \A c \in DOMAIN comps : \A outcome \in GeocodeFailures :
          ( /\ comps[c].pc \in { "geocodeOrigin", "geocodeDestination" }
            /\ RouteStep(geocodeResponse(Cur, c, outcome)) )
          => /\ comps'[c].pc = "done"
             /\ message' \in GeocodeErrorMessages
             /\ requested' = {}
             /\ UNCHANGED << originCoords, destinationCoords, features, nextFeatureId,
                             rotatual, originMarker, destinationMarker,
                             trafficFeatures, incidentFeatures >> ]_vars

\* The geocoding of a destination failed after the origin had been resolved:
\* the computation is over, nothing is stored, nothing is on the map.
C22_Witness ==
    /\ message = "Erro de geocodificacao."
    /\ mapReady /\ apiBaseUrl
    /\ Len(comps) = 1 /\ comps[1].pc = "done"
    /\ originCoords = NoPos /\ destinationCoords = NoPos
    /\ OfType(features, OverlayTypes) = {}

\* ------------------------------------------------------ typed coordinates
\* What 'a, b' means: lat = a, lon = b when a can be a latitude and b a
\* longitude, else lat = b, lon = a when that fits, else nothing.
CoordinateOf(a, b) ==
    IF Abs(a) <= 9000 /\ Abs(b) <= 18000 THEN << b, a >>
    ELSE IF Abs(b) <= 9000 /\ Abs(a) <= 18000 THEN << a, b >>
    ELSE NoPos

\* The step started a computation whose origin field held text.
TypedOrigin(text) ==
    /\ Len(comps') = Len(comps) + 1
    /\ comps'[Len(comps')].originInput = text \/ comps'[Len(comps')].pc = "done"
    /\ RouteStep(routeButton(Cur, text, "Praca da Se"))

\* The origin of the computation just started resolved locally to coord
\* (NoPos: not locally): no geocoding request for it, the request for the
\* destination went out; otherwise exactly the request for the origin.
ResolvedAs(coord) ==
    IF coord # NoPos
    THEN /\ comps'[Len(comps')].origin = coord
         /\ Abs(coord[2]) <= 9000
         /\ requested' = { "geocodeDestination" }
    ELSE /\ comps'[Len(comps')].origin = NoPos
         /\ requested' = { "geocodeOrigin" }

\* C23 as stated: whatever the state of the page.
C23_Original ==
    [][ /\ \A a \in Numerals, b \in Numerals, sep \in Separators :
              TypedOrigin(a.text \o sep \o b.text)
                 => ResolvedAs(CoordinateOf(a.value, b.value))
        /\ \A text \in NonCoordinateTexts : TypedOrigin(text) => ResolvedAs(NoPos) ]_vars

\* C23: once the API base URL is set, geocodeAddress resolves an origin
\* 'a, b' locally and without a geocoding request, to lat = a, lon = b when
\* |a| <= 90 and |b| <= 180, otherwise to lat = b, lon = a when |b| <= 90 and
\* |a| <= 180 (never a latitude above 90 in magnitude); an origin that is not
\* resolved this way sends exactly one geocoding request.  Before the URL is
\* set nothing is resolved and no request is sent.
C23_CoordinatesResolvedLocally ==
    [][ /\ \A a \in Numerals, b \in Numerals, sep \in Separators :
              TypedOrigin(a.text \o sep \o b.text)
                 => IF apiBaseUrl THEN ResolvedAs(CoordinateOf(a.value, b.value))
                    ELSE requested' = {} /\ comps'[Len(comps')].pc = "done"
        /\ \A text \in NonCoordinateTexts :
              TypedOrigin(text)
                 => IF apiBaseUrl THEN ResolvedAs(NoPos)
                    ELSE requested' = {} /\ comps'[Len(comps')].pc = "done" ]_vars

\* '180 , 90' was typed: 180 cannot be a latitude, so the origin was resolved
\* locally with the numbers swapped, and the destination is being geocoded.
C23_Witness ==
    /\ apiBaseUrl
    /\ Len(comps) = 1 /\ comps[1].originInput = "180 , 90"
    /\ comps[1].origin = << 18000, 9000 >>
    /\ comps[1].pc = "geocodeDestination"

\* ------------------------------------------------------- route summary
IsNumber(v) == v.kind = "number"
NonZero(v) == v.kind = "number" /\ v.n # 0
BothTruthy(slot) ==
    /\ slot.present
    /\ NonZero(slot.distance) \/ slot.distance.kind = "text"
    /\ NonZero(slot.duration) \/ slot.duration.kind = "text"
\* The object a recursive search of the answer stops at.
Searched(order) ==
    IF \E i \in DOMAIN order : BothTruthy(order[i])
    THEN order[CHOOSE i \in DOMAIN order :
                 BothTruthy(order[i]) /\ \A j \in 1..(i - 1) : ~BothTruthy(order[j])]
    ELSE NoSlot
SearchOrder(body, hasFeatures) ==
    IF hasFeatures THEN << body.routes, body.props, body.summary, body.segment, body.extra >>
    ELSE << body.routes, body.extra >>
\* The summary panel shows the numbers of slot, 'N/A' for one it lacks.
ShowsNumbers(distance, duration) ==
    /\ routeInfo.distance = IF IsNumber(distance)
                            THEN Shown(" km", (distance.n + 5) \div 10) ELSE NA
    /\ routeInfo.duration = IF IsNumber(duration)
                            THEN Shown(" min", (duration.n + 30) \div 60) ELSE NA
\* A number that is not 0 (0 is read as missing by '||'), else nothing.
Given(v) == IF NonZero(v) THEN v ELSE Undefined
\* What the render step derives from the properties of the route it drew:
\* the first of props.x and props.summary.x that is not missing or 0, as a
\* number with its unit ('NaN' for a text), else nothing ('N/A' stays).
Rendered(first, second) ==
    IF NonZero(first) \/ first.kind = "text" THEN first ELSE second
ShowsRendered(distance, duration) ==
    /\ routeInfo.distance =
          IF NonZero(distance) THEN Shown(" km", (distance.n + 5) \div 10)
          ELSE IF distance.kind = "text" THEN Shown("NaN km", 0) ELSE NA
    /\ routeInfo.duration =
          IF NonZero(duration) THEN Shown(" min", (duration.n + 30) \div 60)
          ELSE IF duration.kind = "text" THEN Shown("NaN min", 0) ELSE NA

\* C24: after an OK routing answer the summary panel shows the distance and
\* duration of the first shape that yields a number, in the order
\* routes[0].summary (any number), features[0].properties.summary and
\* features[0].properties.segments[0] (a number other than 0), the recursive
\* search, and only then what drawRouteOnMap derived; when none yields, both
\* are 'N/A'; in every case the computation ends with the success message.
C24_SummaryPriority ==
    answered.kind = "ok" =>
      LET b == routeBody
          hasFeatures == answered.routes + answered.segments + answered.incidents > 0
          found == Searched(SearchOrder(b, hasFeatures))
      IN /\ message = "Rota calculada!"
         /\ comps[answered.c].pc = "done"
         /\ IF b.routes.present
               /\ (IsNumber(b.routes.distance) \/ IsNumber(b.routes.duration))
            THEN ShowsNumbers(b.routes.distance, b.routes.duration)
            ELSE IF hasFeatures /\ b.summary.present
                    /\ (NonZero(b.summary.distance) \/ NonZero(b.summary.duration))
            THEN ShowsNumbers(Given(b.summary.distance), Given(b.summary.duration))
            ELSE IF hasFeatures /\ b.segment.present
                    /\ (NonZero(b.segment.distance) \/ NonZero(b.segment.duration))
            THEN ShowsNumbers(Given(b.segment.distance), Given(b.segment.duration))
            ELSE IF IsNumber(found.distance) \/ IsNumber(found.duration)
            THEN ShowsNumbers(found.distance, found.duration)
            ELSE IF mapReady /\ answered.routes > 0
            THEN ShowsRendered(Rendered(b.props.distance, b.summary.distance),
                               Rendered(b.props.duration, b.summary.duration))
            ELSE routeInfo = [ distance |-> NA, duration |-> NA ]

\* No summary in routes[0], features[0].properties.summary or segments[0];
\* features[0].properties has only a distance, so the search went on to an
\* object later in the answer and its numbers are shown.
C24_Witness ==
    /\ answered.kind = "ok" /\ answered.routes = 1
    /\ routeBody.routes = NoSlot /\ routeBody.summary = NoSlot
    /\ routeBody.segment = NoSlot
    /\ routeBody.props = Slot(TRUE, Number(5200), Undefined)
    /\ routeBody.extra = Slot(TRUE, Number(4200), Number(2460))
    /\ routeInfo = [ distance |-> Shown(" km", 420), duration |-> Shown(" min", 41) ]

\* ------------------------------------------------------- session expiry
\* The step is the answer 401 to a geocoding request of computation c.
GeocodeDenied(c) ==
    /\ comps[c].pc \in { "geocodeOrigin", "geocodeDestination" }
    /\ RouteStep(geocodeResponse(Cur, c, "unauthorized"))
\* The step is the answer 401 or 403 to the routing request of computation c.
RouteDenied(c) ==
    /\ comps[c].pc = "fetchRouteData"
    /\ RouteStep(routeResponse(Cur, c, Response("unauthorized", 0, 0, 0)))
LoggedOut == token = NoToken /\ localStorageToken = NoToken

Submitted ==
    /\ LoginShown /\ ~loading
    /\ HostStep(handleLogin(HCur))
ValidationErrors ==
    { "O usuario deve ter pelo menos 3 caracteres.",
      "A senha deve ter pelo menos 8 caracteres." }

\* C26: a submit of the login form whose username has fewer than 3
\* characters, or whose password has fewer than 8, shows a validation error,
\* sends no login request and leaves the token unset.
C26_ShortCredentialsRejected ==
    [][ (Submitted /\ (Len(username) < 3 \/ Len(password) < 8))
          => /\ error' \in ValidationErrors
             /\ loginRequests' = loginRequests /\ loginSent' = loginSent
             /\ ~loading'
             /\ token' = NoToken /\ localStorageToken' = NoToken ]_vars

\* A valid username with a 7-character password was submitted and refused
\* by the form itself.
C26_Witness ==
    /\ LoginShown
    /\ username = "testuser" /\ password = "1234567"
    /\ error = "A senha deve ter pelo menos 8 caracteres."
    /\ loginRequests = << >> /\ loginSent = 0

\* The step is the answer outcome to the login request in flight.
Answered(outcome) ==
    /\ loginRequests # << >>
    /\ HostStep(loginSettled(HCur, outcome))

\* C27: when the login request succeeds, the access token of the answer is
\* put in localStorage and given to setToken; when the server refuses the
\* login, answers with a body that is not JSON, or cannot be reached, the
\* token stays unset and an error is shown.
C27_LoginOutcome ==
    [][ /\ Answered("ok")
           => token' = AccessToken /\ localStorageToken' = AccessToken
        /\ \A outcome \in LoginOutcomes \ { "ok" } :
             Answered(outcome)
               => /\ token' = token /\ localStorageToken' = localStorageToken
                  /\ error' # "" /\ ~loading' ]_vars

\* After a logout, a login succeeded: the dashboard is shown with the token
\* of the answer.
C27_Witness ==
    /\ token = AccessToken /\ localStorageToken = AccessToken
    /\ loginSent > 0 /\ loginRequests = << >>

\* ---------------------------------------------------------- stage order
\* The stages of a computation, by the await it is suspended at.
PcRank(pc) ==
    CASE pc = "start" -> 0
      [] pc = "geocodeOrigin" -> 1
      [] pc = "geocodeDestination" -> 2
      [] pc = "waitForMapReady" -> 3
      [] pc = "fetchRouteData" -> 4
      [] OTHER -> 5
\* Where computation c stood before the step ('start': it did not exist).
PcBefore(c) == IF c \in DOMAIN comps THEN comps[c].pc ELSE "start"
Reaches(c, pc) == comps'[c].pc = pc /\ PcBefore(c) # pc

OverlayFeaturesKept ==
    /\ OfType(features', OverlayTypes) = OfType(features, OverlayTypes)
    /\ \A f \in OfType(features, OverlayTypes) : features'[f] = features[f]
\* The position marker and accuracy circle, with their geometry, are as before.
GpsFeaturesKept ==
    /\ UNCHANGED << markerFeature, accuracyFeature >>
    /\ \A f \in { markerFeature, accuracyFeature } \ { Null } :
          f \in DOMAIN features' /\ features'[f] = features[f]
\* No computation is cancelled or moved: each is suspended where it was.
ComputationsKept ==
    /\ DOMAIN comps' = DOMAIN comps
    /\ \A c \in DOMAIN comps :
          /\ comps'[c].pc = comps[c].pc
          /\ comps'[c].origin = comps[c].origin
          /\ comps'[c].destination = comps[c].destination

\* C30: a position callback leaves the route overlay, the origin and
\* destination markers, the stored route coordinates and the computations
\* as they were; the steps that run clearRoute or drawRouteOnMap (a new route,
\* a routing answer) leave the watch handle, follow-mode, the stored position
\* and the position marker as they were; and stopWatching, alone or in the
\* clear button, leaves every computation suspended where it was (alone, it
\* also leaves the overlay and the stored coordinates).
C30_FrameEffects ==
    [][ /\ WatchPosition
           => /\ UNCHANGED << rotatual, originMarker, destinationMarker,
                              trafficFeatures, incidentFeatures, originCoords,
                              destinationCoords, routeInfo >>
              /\ OverlayFeaturesKept
              /\ ComputationsKept
        /\ (DrawRouteOnce \/ RouteResponse)
           => /\ UNCHANGED << watchId, watches, following, currentPos,
                              currentAccuracy, hasInitialFix >>
              /\ GpsFeaturesKept
        /\ StopWatching
           => /\ ComputationsKept
              /\ OverlayFeaturesKept
              /\ UNCHANGED << rotatual, originMarker, destinationMarker,
                              originCoords, destinationCoords >>
        /\ ClearButton => ComputationsKept ]_vars

\* The clear button (clearRoute, stopWatching) was pressed while the routing
\* request was in flight; the answer was drawn all the same, and the stored
\* position and its marker are still there.
C30_Witness ==
    /\ answered.kind = "ok" /\ answered.cleared
    /\ rotatual # Null
    /\ watchId = Null /\ watches = {}
    /\ currentPos # NoPos /\ markerFeature \in DOMAIN features

\* ------------------------------------------------------------------ C31
\* The features of the vector source that are markers of the given name.
MarkersShown(fs, name) == { f \in DOMAIN fs : fs[f].type = name }
\* The tracked origin and destination markers are new features, placed at the
\* stored coordinates.
MarkersDrawn ==
    /\ originMarker' \in DOMAIN features' /\ originMarker' \notin DOMAIN features
    /\ destinationMarker' \in DOMAIN features'
    /\ destinationMarker' \notin DOMAIN features
    /\ features'[originMarker'] = RouteMarker("Origem", originCoords, 0)
    /\ features'[destinationMarker'] = RouteMarker("Destino", destinationCoords, 0)
BothCoordsStored == originCoords # NoPos /\ destinationCoords # NoPos

\* C31: drawRouteMarkers called before the vector source exists draws nothing
\* and registers one mapReady listener; when the map becomes ready the
\* listeners run once and are gone, and they draw the markers provided both
\* coordinates are stored then.  Called with the source ready and both
\* coordinates stored it removes the earlier markers before it adds the new
\* ones.  The vector source never holds more than one origin marker and one
\* destination marker.
C31_MarkersDeferredAndReplaced ==
    /\ [][ /\ (DrawRouteMarkers /\ ~mapReady)
              => /\ UNCHANGED << features, originMarker, destinationMarker >>
                 /\ markerListeners' = markerListeners + 1
           /\ (RenderComplete /\ markerListeners > 0)
              => /\ markerListeners' = 0
                 /\ BothCoordsStored => MarkersDrawn
                 /\ ~BothCoordsStored => UNCHANGED features
           /\ (DrawRouteMarkers /\ mapReady /\ BothCoordsStored)
              => /\ MarkersDrawn
                 /\ originMarker # Null => originMarker \notin DOMAIN features'
                 /\ destinationMarker # Null => destinationMarker \notin DOMAIN features'
                 /\ markerListeners' = markerListeners ]_vars
    /\ [](/\ Cardinality(MarkersShown(features, "Origem")) <= 1
          /\ Cardinality(MarkersShown(features, "Destino")) <= 1)

\* Two calls came before the map was ready, with both coordinates stored by a
\* click-to-route computation; rendercomplete has run both listeners, and the
\* source holds the markers of the second one only.
C31_Witness ==
    /\ mapReady /\ markerListeners = 0
    /\ originMarker = 3 /\ destinationMarker = 4
    /\ DOMAIN features = { 3, 4 }
    /\ features[3].type = "Origem" /\ features[4].type = "Destino"
    /\ features[3].of = 0

\* ------------------------------------------------------------------ C32
\* The step drew the answer of the routing endpoint that 'answered' holds.
Drew == answered'.kind = "ok"
HasType(f, t) == f.feature_type = t
\* What the claims call a route line, a traffic segment, an incident.
RouteLine(f) ==
    \/ HasType(f, "route_reference") \/ HasType(f, "route_basic")
    \/ (HasType(f, "") /\ f.geometry = "LineString")
CountOf(fc, Test(_)) == Cardinality({ i \in DOMAIN fc : Test(fc[i]) })
NewFeatures == (DOMAIN features') \ (DOMAIN features)
NewOfType(t) == { f \in NewFeatures : features'[f].type = t }

\* C32: drawRouteOnMap adds the base route line of every answer that has a
\* route line and stores it as the current route; the line is shown exactly
\* when the answer has no traffic segment and is transparent when it has one.
C32_BaseLineAlwaysAdded ==
    [][ (Drew /\ CountOf(answered'.fc, RouteLine) > 0)
        => /\ rotatual' \in NewOfType("LineString")
           /\ features'[rotatual'].visible
              = (\A i \in DOMAIN answered'.fc :
                    ~HasType(answered'.fc[i], "traffic_segment")) ]_vars

\* An answer with a route line and a traffic segment was drawn: the line is
\* in the source, stored as the current route, and transparent.
C32_Witness ==
    /\ answered.kind = "ok"
    /\ \E i, j \in DOMAIN answered.fc :
         /\ RouteLine(answered.fc[i])
         /\ HasType(answered.fc[j], "traffic_segment")
    /\ rotatual \in DOMAIN features
    /\ ~features[rotatual].visible

\* ------------------------------------------------------------------ C33
TrafficSegmentFeature(f) == HasType(f, "traffic_segment")
IncidentFeature(f) == HasType(f, "traffic_incident")
\* The first route line of a collection that has one.
FirstRouteLine(fc) ==
    fc[CHOOSE i \in DOMAIN fc :
          RouteLine(fc[i]) /\ \A j \in 1..(i - 1) : ~RouteLine(fc[j])]

\* C33: of the features of an answer, drawRouteOnMap draws one traffic feature
\* per traffic_segment, one incident feature per traffic_incident, and one
\* line, that of the first route line (route_reference, route_basic, or a
\* LineString without feature_type), when there is a route line; it draws
\* nothing else, so no feature is drawn as two kinds and a feature of another
\* declared type draws nothing.
C33_FeaturesClassified ==
    [][ Drew
        => LET fc == answered'.fc
           IN /\ Cardinality(NewOfType("Traffic")) = CountOf(fc, TrafficSegmentFeature)
              /\ Cardinality(NewOfType("Incident")) = CountOf(fc, IncidentFeature)
              /\ NewFeatures = NewOfType("Traffic") \cup NewOfType("Incident")
                                 \cup NewOfType("LineString")
              /\ IF CountOf(fc, RouteLine) = 0
                 THEN NewOfType("LineString") = {}
                 ELSE /\ NewOfType("LineString") = { rotatual' }
                      /\ features'[rotatual'].coord
                           = fromLonLat(FirstRouteLine(fc).from)
                               \o fromLonLat(FirstRouteLine(fc).to) ]_vars

\* An answer with an unknown type first, then a line without feature_type and
\* a route_basic line: the only feature drawn is the line to D.
C33_Witness ==
    /\ answered.kind = "ok"
    /\ Len(answered.fc) = 3
    /\ HasType(answered.fc[1], "alternative_route")
    /\ HasType(answered.fc[2], "") /\ answered.fc[2].geometry = "LineString"
    /\ HasType(answered.fc[3], "route_basic")
    /\ rotatual \in DOMAIN features
    /\ features[rotatual].coord = fromLonLat(EndA) \o fromLonLat(EndD)
    /\ Cardinality({ f \in DOMAIN features :
                       features[f].type \in { "LineString", "Traffic", "Incident" } }) = 1

\* ------------------------------------------------------------------ C34
\* The status line after a callback with the delivered accuracy: low
\* precision above 150 m, else active tracking, marked as following exactly
\* when follow-mode is on.
StatusReflectsAccuracy ==
    IF delivered'.acc > GPS_RELIABLE_THRESHOLD
    THEN status' = Status("GPS ativo, precisao baixa.", delivered'.acc, FALSE)
    ELSE status' = Status("GPS Ativo.", delivered'.acc, following)

\* C34 as stated: after every accepted position callback the status line
\* reports low precision for an accuracy above 150 m and active tracking
\* otherwise, with the following mark exactly when follow-mode is on.
C34_Original ==
    [][ AcceptedCallback => StatusReflectsAccuracy ]_vars

\* C34 amended: the same for every accepted callback but the first fix (the
\* callback that finds hasInitialFix unset), which reports 'GPS inicial obtido'
\* with the accuracy, whatever the accuracy and the follow-mode.
C34_StatusReflectsAccuracy ==
    [][ AcceptedCallback
          => /\ hasInitialFix => StatusReflectsAccuracy
             /\ ~hasInitialFix
                  => status' = Status("GPS inicial obtido.", delivered'.acc, FALSE) ]_vars

\* A reading of exactly 150 m after the first fix, follow-mode on: reported
\* as active tracking, following.
C34_Witness ==
    /\ delivered.by = "watch"
    /\ delivered.acc = GPS_RELIABLE_THRESHOLD
    /\ following
    /\ status = Status("GPS Ativo.", GPS_RELIABLE_THRESHOLD, TRUE)

\* ------------------------------------------------------------------ C35
\* C35: with follow-mode off, an accepted position callback after the first
\* fix leaves the centre and the zoom of the view as they are.
C35_ViewportLeftAlone ==
    [][ (AcceptedCallback /\ hasInitialFix /\ ~following)
          => (center' = center /\ zoom' = zoom) ]_vars

\* ------------------------------------------------------------------ C36
\* C36: where the browser has geolocation, a click on the locate button with
\* no watch handle stored creates a subscription and stores its handle.
C36_LocateStartsTracking ==
    [][ (LocateButton /\ watchId = Null /\ hasGeolocation)
          => (watchId' # Null /\ \E w \in watches' : w.id = watchId') ]_vars

\* ------------------------------------------------------------------ C37
\* C37: once initMapWithCurrentPosition has requested the one-shot read, a
\* subscription is eventually live with its handle stored, and at no time
\* are two subscriptions live.
C37_SubscriptionFollows ==
    /\ (pendingOnce # {}) ~> (watchId # Null /\ watches # {})
    /\ [](Cardinality(watches) <= 1)

\* ------------------------------------------------------------------ C39
\* The legacy calls that end in the step.
Ending == { k \in DOMAIN legacyCalls :
              legacyCalls[k] # "done" /\ legacyCalls'[k] = "done" }

\* C39: whenever an accepted legacy drawRoute call ends, however it ends,
\* is_drawing_route is false afterwards; the flag is set only while a call is
\* in flight, so a call is rejected only when another one is in flight.
C39_FlagResetOnEveryEnd ==
    /\ [][ /\ Ending # {} => ~is_drawing_route'
           /\ rejected' => InFlight(legacyCalls) # {} ]_vars
    /\ [](is_drawing_route => InFlight(legacyCalls) # {})

\* A call has failed, and the next call was accepted and is in flight.
C39_Witness ==
    /\ Len(legacyCalls) >= 2
    /\ legacyCalls[1] = "done"
    /\ legacyCalls[2] = "fetch"
    /\ legacyStatus = "Falha ao calcular rota."
    /\ legacyRotatual = Null
    /\ is_drawing_route

\* ---------------------------------------------------------------------------
\* C38  Click-to-route alternates strictly: the clicks of the map are taken in
\* (origin, destination) pairs, the odd ones as origin and the even ones as
\* destination, whatever is in flight and whether or not the clear button was
\* pressed in between; an origin click starts no computation and a
\* destination click starts exactly one.  Stated of the page whose click
\* handler is registered.
C38_ClicksAlternate ==
    [][ (uiNamesDeclared /\ clicks' = clicks + 1)
        => /\ clickRole' = (IF clicks % 2 = 0 THEN "origin" ELSE "destination")
           /\ Len(comps') = Len(comps) + (IF clicks % 2 = 0 THEN 0 ELSE 1) ]_vars


\* ---------------------------------------------------------------------------
\* C40  Bottom sheet: after every openSheet, drag end, toggle click or resize,
\* currentSnap is one of closed / min / mid / full and the sheet is marked
\* aria-hidden exactly when currentSnap is 'closed'; a toggle click opens a
\* closed sheet to the minimum snap and closes a sheet that is in any open
\* snap.
SnapNames == { "closed", "min", "mid", "full" }

C40_SheetSnaps ==
    [][ /\ (sheetOp' \in { "openSheet", "dragEnd", "toggle", "resize" })
           => /\ currentSnap' \in SnapNames
              /\ (ariaHidden' = "true") <=> (currentSnap' = "closed")
        /\ (sheetOp' = "toggle")
           => currentSnap' = (IF currentSnap = "closed" THEN "min" ELSE "closed") ]_vars

====
